---- MODULE Spec2Model ----
(***************************************************************************)
(* A model of the recitation alignment engine of tilawa-core-ai:           *)
(* Arabic normalisation, the cached verse corpus, the matcher, the verse   *)
(* sequence analyser, the classifier and the alignment entry points.       *)
(*                                                                         *)
(* Text is a sequence of characters; a character is named by its class     *)
(* ("ba", "fatha", "space", ...).  Python floats are modelled as exact     *)
(* rationals <<numerator, denominator>> in lowest terms; the mean of the   *)
(* accuracies is computed in double precision.                             *)
(***************************************************************************)
EXTENDS Integers, Sequences, FiniteSets, TLC

VARIABLES
    hasRapidfuzz,   \* quran_matcher._HAS_RAPIDFUZZ, fixed at import
    rawData,        \* the records of data/quran.json ("missing": no file)
    corpus,         \* the list load_quran_verses() returns to this request
    pc,             \* position of the request being served
    op,             \* the operation the request ran and its arguments
    result,         \* what the operation returned
    summary,        \* what summarize_alignment_result returned
    cache,          \* the lru_cache entry of load_quran_verses ("none": empty)
    loadCount,      \* how many times the body of load_quran_verses began
    nextObj,        \* identity given to the next list object created
    tpc,            \* per thread: position inside its load_quran_verses call
    tlocal,         \* per thread: its local variables inside the body
    tres,           \* per thread: what its last call returned
    tcalls,         \* per thread: calls completed
    whisperModel,   \* quran_align._whisper_model (0: None)
    modelsBuilt,    \* how many Whisper models were constructed
    modelsUsed,     \* the models that transcribed a request
    wpc,            \* per worker thread: position inside align_quran
    wmodel,         \* per worker thread: the model _get_whisper_model returned
    wcalls          \* per worker thread: requests begun

vars == <<hasRapidfuzz, rawData, corpus, pc, op, result, summary,
          cache, loadCount, nextObj, tpc, tlocal, tres, tcalls,
          whisperModel, modelsBuilt, modelsUsed, wpc, wmodel, wcalls>>

pipeVars == <<pc, op, result, summary>>
loadVars == <<cache, loadCount, nextObj, tpc, tlocal, tres, tcalls>>
whisperVars == <<whisperModel, modelsBuilt, modelsUsed, wpc, wmodel, wcalls>>

-----------------------------------------------------------------------------
(* Bounds of the model *)

MaxLen == 4          \* longest transcript, in characters
MaxTopK == 2         \* largest top_k a caller passes to the matcher
MaxSpanArg == 2      \* largest max_span a caller passes to the analyser
NumThreads == 2      \* worker threads calling load_quran_verses
MaxCalls == 2        \* calls each thread makes
MaxItems == 2        \* longest sequence handed to the classifier directly
MaxText == 3         \* longest text handed to the normalizer directly, in characters
MaxAyahs == 4        \* longest sequence handed to the timeline builder directly

-----------------------------------------------------------------------------
(* Exact rationals for Python floats *)

RECURSIVE Gcd(_, _)
Gcd(a, b) == IF b = 0 THEN a ELSE Gcd(b, a % b)

Abs(x) == IF x < 0 THEN -x ELSE x

Rat(n, d) ==
    LET g == Gcd(Abs(n), d)
    IN  IF n = 0 THEN <<0, 1>> ELSE <<n \div g, d \div g>>

RLt(x, y) == x[1] * y[2] < y[1] * x[2]
RLe(x, y) == x[1] * y[2] <= y[1] * x[2]
RGe(x, y) == RLe(y, x)
RGt(x, y) == RLt(y, x)
RAdd(x, y) == Rat(x[1] * y[2] + y[1] * x[2], x[2] * y[2])
RDivInt(x, n) == Rat(x[1], x[2] * n)
RSub(x, y) == Rat(x[1] * y[2] - y[1] * x[2], x[2] * y[2])
RMul(x, y) == Rat(x[1] * y[1], x[2] * y[2])
RMax(x, y) == IF RLt(x, y) THEN y ELSE x
RMin(x, y) == IF RLt(y, x) THEN y ELSE x
Zero == Rat(0, 1)
One == Rat(1, 1)

RECURSIVE RSum(_)
RSum(s) == IF s = <<>> THEN Zero ELSE RAdd(Head(s), RSum(Tail(s)))

Min(a, b) == IF a < b THEN a ELSE b
Max(a, b) == IF a > b THEN a ELSE b

-----------------------------------------------------------------------------
(* Characters, by class *)

Diacritics == {"fatha", "sukun"}
Tatweel == "tatweel"
AlifVariants == {"alif_hamza_above", "alif_hamza_below", "alif_madda", "alif_wasla"}
AlifMaksura == "alif_maksura"
PlainLetters == {"alif", "yaa", "ba", "lam", "mim", "ha", "dal", "ra", "ain", "nun"}
\* inside U+0600-U+06FF, neither letter nor diacritic of the pattern
ArabicMarks == {"arabic_comma", "arabic_digit"}
Whitespace == {"space", "newline"}
NonArabic == {"latin", "digit", "period"}

ArabicBlock ==
    Diacritics \cup {Tatweel} \cup AlifVariants \cup {AlifMaksura}
        \cup PlainLetters \cup ArabicMarks

Chars == ArabicBlock \cup Whitespace \cup NonArabic

-----------------------------------------------------------------------------
(* quran_normalize.normalize_arabic *)

IsDiacritic(c) == c \in Diacritics
\* a pattern that knows the fatha only
StripFathaOnly(s) == SelectSeq(s, LAMBDA c : c # "fatha")
StripDiacritics(s) == SelectSeq(s, LAMBDA c : ~IsDiacritic(c))
StripTatweel(s) == SelectSeq(s, LAMBDA c : c # Tatweel)

UnifyChar(c) ==
    IF c \in AlifVariants THEN "alif"
    ELSE IF c = AlifMaksura THEN "yaa"
    ELSE c
UnifyLetters(s) == [i \in 1..Len(s) |-> UnifyChar(s[i])]

BlankChar(c) == IF c \in ArabicBlock \/ c \in Whitespace THEN c ELSE "space"
BlankNonArabic(s) == [i \in 1..Len(s) |-> BlankChar(s[i])]

\* str.split(): the maximal runs of non-whitespace characters, in order
RECURSIVE SplitFrom(_, _, _)
SplitFrom(s, i, cur) ==
    IF i > Len(s)
    THEN IF cur = <<>> THEN <<>> ELSE <<cur>>
    ELSE IF s[i] \in Whitespace
         THEN IF cur = <<>> THEN SplitFrom(s, i + 1, <<>>)
              ELSE <<cur>> \o SplitFrom(s, i + 1, <<>>)
         ELSE SplitFrom(s, i + 1, Append(cur, s[i]))
Split(s) == SplitFrom(s, 1, <<>>)

\* " ".join(words)
RECURSIVE JoinSpace(_)
JoinSpace(ws) ==
    IF ws = <<>> THEN <<>>
    ELSE IF Len(ws) = 1 THEN ws[1]
    ELSE ws[1] \o <<"space">> \o JoinSpace(Tail(ws))

normalize_arabic(text) ==
    IF text = <<>> THEN <<>>
    ELSE JoinSpace(Split(BlankNonArabic(UnifyLetters(StripTatweel(StripDiacritics(text))))))

-----------------------------------------------------------------------------
(* The verse source data and quran_normalize.load_quran_verses *)

\* a JSON value found under "surah" or "ayah"
IntField(v) == [kind |-> "int", val |-> v]
NumStrField(v) == [kind |-> "numstr", val |-> v]
BadStrField == [kind |-> "badstr", val |-> 0]
AbsentField == [kind |-> "absent", val |-> 0]
\* a JSON value found under "text"
StrField(t) == [kind |-> "str", val |-> t]
AbsentText == [kind |-> "absent", val |-> <<>>]

RawItem(s, a, t) == [surah |-> s, ayah |-> a, text |-> t]

\* int(item["surah"]): KeyError when absent, ValueError on a non-numeric string
IntRaises(f) == f.kind \in {"absent", "badstr"}
IntOf(f) == f.val

\* str(item.get("text", ""))
TextOf(f) == IF f.kind = "absent" THEN <<>> ELSE f.val

ItemRaises(item) == IntRaises(item.surah) \/ IntRaises(item.ayah)

LoadItem(item) ==
    [surah |-> IntOf(item.surah),
     ayah |-> IntOf(item.ayah),
     text_raw |-> TextOf(item.text),
     text_norm |-> normalize_arabic(TextOf(item.text))]

\* the whole loop of load_quran_verses over well-formed records
LoadAll(raw) == [i \in 1..Len(raw) |-> LoadItem(raw[i])]

\* the file as found on disk
DataFile(items) == [exists |-> TRUE, items |-> items]
MissingFile == [exists |-> FALSE, items |-> <<>>]

\* Verse data used as corpora.  Texts carry diacritics and letter variants
\* as a mushaf does; words are one or two letters long.
W(cs) == StrField(cs)
Good(s, a, t) == RawItem(IntField(s), IntField(a), W(t))

CorpusMain ==
    << Good(1, 1, <<"ba", "fatha">>),
       Good(1, 2, <<"mim">>),
       Good(1, 3, <<"ba", "fatha", "space", "lam">>),
       Good(2, 1, <<"lam", "space", "ba">>),
       Good(2, 2, <<"lam", "sukun">>),
       Good(2, 3, <<"lam", "space", "lam">>),
       Good(3, 1, <<"ba">>) >>

\* one long verse: "b l" followed by a thirteen-letter word
LongWord == [i \in 1..13 |-> "mim"]
CorpusLong ==
    << Good(1, 1, <<"ba", "space", "lam", "tatweel", "space">> \o LongWord),
       Good(1, 2, <<"mim", "fatha">>) >>

\* a single one-word verse
CorpusShort == << Good(1, 1, <<"ba">>) >>

\* two verses of surah 1 that together weigh as much as the one of surah 2
CorpusTie ==
    << Good(1, 1, <<"ba", "space", "lam">>),
       Good(1, 2, <<"lam", "space", "ba">>),
       Good(2, 1, <<"ba">>) >>

\* six verses of five words each
FiveWords == <<"ba", "space", "mim", "space", "mim", "space", "mim", "space", "mim">>
CorpusFive == [i \in 1..6 |-> Good(1, i, FiveWords)]

CorpusEmpty == <<>>

GoodCorpora == {CorpusMain, CorpusLong, CorpusShort, CorpusTie, CorpusFive, CorpusEmpty}

-----------------------------------------------------------------------------
(* quran_matcher._similarity: difflib.SequenceMatcher(None, a, b).ratio()  *)
(* Ranges are [lo, hi) over 1-based positions.  The model's strings are    *)
(* shorter than the 200 characters at which difflib's autojunk starts.     *)

RECURSIVE CommonLen(_, _, _, _, _, _)
CommonLen(a, b, i, j, ahi, bhi) ==
    IF i < ahi /\ j < bhi /\ a[i] = b[j]
    THEN 1 + CommonLen(a, b, i + 1, j + 1, ahi, bhi)
    ELSE 0

SetMax(S) == CHOOSE x \in S : \A y \in S : y <= x
SetMin(S) == CHOOSE x \in S : \A y \in S : x <= y

\* find_longest_match: the longest block, earliest in a, then earliest in b
BlockAt(cl, pairs, k, i) ==
    [i |-> i, j |-> SetMin({p[2] : p \in {q \in pairs : cl[q] = k /\ q[1] = i}}), k |-> k]

BlockOfSize(cl, pairs, k, alo, blo) ==
    IF k = 0 THEN [i |-> alo, j |-> blo, k |-> 0]
    ELSE BlockAt(cl, pairs, k, SetMin({p[1] : p \in {q \in pairs : cl[q] = k}}))

LongestIn(cl, pairs, alo, blo) ==
    BlockOfSize(cl, pairs, IF pairs = {} THEN 0 ELSE SetMax({cl[p] : p \in pairs}), alo, blo)

FindLongestMatch(a, b, alo, ahi, blo, bhi) ==
    LongestIn([p \in (alo..(ahi - 1)) \X (blo..(bhi - 1)) |->
                  CommonLen(a, b, p[1], p[2], ahi, bhi)],
              (alo..(ahi - 1)) \X (blo..(bhi - 1)), alo, blo)

\* get_matching_blocks: total size of the blocks found left and right of
\* each longest match
RECURSIVE MatchCount(_, _, _, _, _, _)
AroundBlock(a, b, alo, ahi, blo, bhi, m) ==
    IF m.k = 0 THEN 0
    ELSE m.k
         + MatchCount(a, b, alo, m.i, blo, m.j)
         + MatchCount(a, b, m.i + m.k, ahi, m.j + m.k, bhi)

MatchCount(a, b, alo, ahi, blo, bhi) ==
    IF alo >= ahi \/ blo >= bhi THEN 0
    ELSE AroundBlock(a, b, alo, ahi, blo, bhi,
                     FindLongestMatch(a, b, alo, ahi, blo, bhi))

SequenceMatcherRatio(a, b) ==
    IF Len(a) + Len(b) = 0 THEN One
    ELSE Rat(2 * MatchCount(a, b, 1, Len(a) + 1, 1, Len(b) + 1), Len(a) + Len(b))

(* rapidfuzz.fuzz.partial_ratio(a, b) / 100 *)

\* one row of the longest-common-subsequence table; row[j + 1] is the
\* length for the prefix b[1..j].  (The tests on Len(acc) and Len(prev)
\* always hold; they make the evaluator compute each row before it goes on.)
RECURSIVE LcsRow(_, _, _, _, _)
LcsRow(prev, ch, b, j, acc) ==
    IF j > Len(b) \/ Len(acc) # j THEN acc
    ELSE LET v == IF ch = b[j] THEN prev[j] + 1
                  ELSE Max(prev[j + 1], acc[j])
         IN  LcsRow(prev, ch, b, j + 1, Append(acc, v))

RECURSIVE LcsRows(_, _, _, _)
LcsRows(a, b, i, prev) ==
    IF i > Len(a) \/ Len(prev) # Len(b) + 1 THEN prev
    ELSE LcsRows(a, b, i + 1, LcsRow(prev, a[i], b, 1, <<0>>))

LcsLen(a, b) == LcsRows(a, b, 1, [j \in 1..(Len(b) + 1) |-> 0])[Len(b) + 1]

\* fuzz.ratio / 100: the normalised Indel similarity
IndelRatio(a, b) ==
    IF Len(a) + Len(b) = 0 THEN One
    ELSE Rat(2 * LcsLen(a, b), Len(a) + Len(b))

CharSet(s) == {s[i] : i \in 1..Len(s)}

RMaxOf(S) == IF S = {} THEN Zero ELSE CHOOSE x \in S : \A y \in S : RLe(y, x)

\* the windows of the longer string the shorter one is scored against:
\* its prefixes shorter than s1, every substring as long as s1, and the
\* suffixes; a window whose boundary character does not occur in s1 is
\* skipped
PartialWindows(s1, s2) ==
    LET len1 == Len(s1)
        len2 == Len(s2)
        cs == CharSet(s1)
    IN  {SubSeq(s2, 1, i) : i \in {x \in 1..(len1 - 1) : s2[x] \in cs}}
        \cup {SubSeq(s2, i + 1, i + len1) :
                 i \in {x \in 0..(len2 - len1 - 1) : s2[x + len1] \in cs}}
        \cup {SubSeq(s2, i + 1, len2) :
                 i \in {x \in (len2 - len1)..(len2 - 1) : s2[x + 1] \in cs}}

PartialRatioImpl(s1, s2) ==
    RMaxOf({IndelRatio(s1, w) : w \in PartialWindows(s1, s2)})

\* equal lengths: the better of the two directions, unless the first is 1
BothWays(res, a, b) ==
    IF res # One /\ Len(a) = Len(b) THEN RMax(res, PartialRatioImpl(b, a)) ELSE res

PartialRatio(a, b) ==
    IF Len(a) <= Len(b) THEN BothWays(PartialRatioImpl(a, b), a, b)
    ELSE PartialRatioImpl(b, a)

_similarity(rapid, a, b) ==
    IF a = <<>> \/ b = <<>> THEN Zero
    ELSE IF rapid THEN PartialRatio(a, b)
    ELSE SequenceMatcherRatio(a, b)

-----------------------------------------------------------------------------
(* quran_matcher.match_transcript_to_verses *)

Match(s, a, c) == [surah |-> s, ayah |-> a, confidence |-> c]

\* the loop over the corpus: one entry per verse that scores above zero
RECURSIVE ScoreVerses(_, _, _, _)
ScoreVerses(rapid, verses, tn, i) ==
    IF i > Len(verses) THEN <<>>
    ELSE LET v == verses[i]
             score == _similarity(rapid, tn, v.text_norm)
             rest == ScoreVerses(rapid, verses, tn, i + 1)
         IN  IF RLe(score, Zero) THEN rest
             ELSE <<Match(v.surah, v.ayah, score)>> \o rest

\* a descending sort that puts a new entry ahead of its equals
InsertByConfidenceBeforeTies(sorted, x) ==
    LET n == Cardinality({i \in 1..Len(sorted) :
                             RGt(sorted[i].confidence, x.confidence)})
    IN  SubSeq(sorted, 1, n) \o <<x>> \o SubSeq(sorted, n + 1, Len(sorted))

\* list.sort(key=confidence, reverse=True): descending and stable
InsertByConfidence(sorted, x) ==
    LET n == Cardinality({i \in 1..Len(sorted) :
                             RGe(sorted[i].confidence, x.confidence)})
    IN  SubSeq(sorted, 1, n) \o <<x>> \o SubSeq(sorted, n + 1, Len(sorted))

RECURSIVE SortByConfidence(_, _)
SortByConfidence(s, acc) ==
    IF s = <<>> THEN acc
    ELSE SortByConfidence(Tail(s), InsertByConfidence(acc, Head(s)))

\* a cut one entry late: scores[:top_k + 1]
TruncateOneMore(s, k) == SubSeq(s, 1, IF k + 1 <= Len(s) THEN k + 1 ELSE Len(s))

\* scores[:top_k] for top_k > 0
Truncate(s, k) == SubSeq(s, 1, Min(k, Len(s)))

RankedScores(rapid, verses, tn) ==
    SortByConfidence(ScoreVerses(rapid, verses, tn, 1), <<>>)

TopOf(scores, top_k) ==
    [raised |-> FALSE, value |-> IF top_k <= 0 THEN scores ELSE Truncate(scores, top_k)]

\* The corpus is read only after both emptiness tests passed; `c` is what
\* load_quran_verses() gives: [raises, verses].
MatchNormalized(rapid, c, tn, top_k) ==
    IF tn = <<>> THEN [raised |-> FALSE, value |-> <<>>]
    ELSE IF c.raises THEN [raised |-> TRUE, value |-> <<>>]
    ELSE TopOf(RankedScores(rapid, c.verses, tn), top_k)

match_transcript_to_verses(rapid, c, transcript, top_k) ==
    IF transcript = <<>> THEN [raised |-> FALSE, value |-> <<>>]
    ELSE MatchNormalized(rapid, c, normalize_arabic(transcript), top_k)

-----------------------------------------------------------------------------
(* quran_sequence.analyze_quran_recitation_transcript *)

None == [some |-> FALSE]
Some(x) == [some |-> TRUE, val |-> x]

TopKAnchor == 5
AnchorMinConfidence == Rat(3, 10)
SkipBelowAccuracy == Rat(2, 10)
DefaultMaxSpan == 10
DefaultAccuracyThreshold == Rat(9, 10)

base_result == [surah |-> None, sequence |-> <<>>, global_accuracy |-> None,
                errors |-> <<>>]

InSeq(w, s) == \E i \in 1..Len(s) : s[i] = w

\* keys of surah_scores, in insertion order
RECURSIVE SurahOrder(_, _)
SurahOrder(matches, acc) ==
    IF matches = <<>> THEN acc
    ELSE SurahOrder(Tail(matches),
                    IF InSeq(Head(matches).surah, acc) THEN acc
                    ELSE Append(acc, Head(matches).surah))

ConfidencesOf(matches, s) ==
    LET ms == SelectSeq(matches, LAMBDA m : m.surah = s)
    IN  [i \in 1..Len(ms) |-> ms[i].confidence]

SurahScore(matches, s) == RSum(ConfidencesOf(matches, s))

\* best_per_surah[s]: replaced only by a strictly better match
FirstBest(ms) ==
    ms[SetMin({k \in 1..Len(ms) :
                  \A j \in 1..Len(ms) : RLe(ms[j].confidence, ms[k].confidence)})]

BestOfSurah(matches, s) == FirstBest(SelectSeq(matches, LAMBDA m : m.surah = s))

\* max(surah_scores.items(), key=score): the first key of greatest score
FirstGreatest(matches, order) ==
    order[SetMin({k \in 1..Len(order) :
                     \A j \in 1..Len(order) :
                         RLe(SurahScore(matches, order[j]),
                             SurahScore(matches, order[k]))})]

\* an anchor surah taken from the single best match
AnchorSurahOfBest(matches) == matches[1].surah

AnchorSurah(matches) == FirstGreatest(matches, SurahOrder(matches, <<>>))

AnchorMatch(matches) == BestOfSurah(matches, AnchorSurah(matches))

\* surah_verses.sort(key=ayah): ascending and stable
InsertByAyah(sorted, v) ==
    LET n == Cardinality({i \in 1..Len(sorted) : sorted[i].ayah <= v.ayah})
    IN  SubSeq(sorted, 1, n) \o <<v>> \o SubSeq(sorted, n + 1, Len(sorted))

RECURSIVE SortByAyah(_, _)
SortByAyah(s, acc) ==
    IF s = <<>> THEN acc
    ELSE SortByAyah(Tail(s), InsertByAyah(acc, Head(s)))

\* The lists analyze holds while it works: `cached` is the list that
\* load_quran_verses returned, `surah_verses` the one the comprehension
\* built; `aliased` tells whether the two names refer to one list.
\* a filter that hands back the cached list itself
FilterSurahAliased(verses, surah) ==
    [cached |-> verses, surah_verses |-> verses, aliased |-> TRUE]

\* surah_verses = [v for v in verses if ...]: a new list
FilterSurah(verses, surah) ==
    [cached |-> verses,
     surah_verses |-> SelectSeq(verses, LAMBDA v : v.surah = surah),
     aliased |-> FALSE]

\* surah_verses.sort(...): in place, on whichever list the name refers to
SortInPlace(h) ==
    IF h.surah_verses = <<>> THEN h
    ELSE IF h.aliased
    THEN [h EXCEPT !.cached = SortByAyah(h.cached, <<>>),
                   !.surah_verses = SortByAyah(h.cached, <<>>)]
    ELSE [h EXCEPT !.surah_verses = SortByAyah(h.surah_verses, <<>>)]

\* the cached list once analyze has anchored on `matches` and returned
CachedAfterAnalyze(verses, matches) ==
    IF matches = <<>> THEN verses
    ELSE IF RLt(AnchorMatch(matches).confidence, AnchorMinConfidence) THEN verses
    ELSE SortInPlace(FilterSurah(verses, AnchorMatch(matches).surah)).cached

SurahVerses(verses, surah) ==
    SortByAyah(SelectSeq(verses, LAMBDA v : v.surah = surah), <<>>)

\* verses_by_ayah.get(n): the last entry written under that key
HasAyah(sv, n) == \E i \in 1..Len(sv) : sv[i].ayah = n
VerseOfAyah(sv, n) == sv[SetMax({i \in 1..Len(sv) : sv[i].ayah = n})]

\* a count of the distinct verse words found in the transcript
CoveredDistinct(ayah_tokens, transcript_tokens) ==
    Cardinality({w \in {ayah_tokens[i] : i \in 1..Len(ayah_tokens)} :
                    InSeq(w, transcript_tokens)})

Covered(ayah_tokens, transcript_tokens) ==
    Cardinality({i \in 1..Len(ayah_tokens) : InSeq(ayah_tokens[i], transcript_tokens)})

Accuracy(ayah_tokens, transcript_tokens) ==
    Rat(Covered(ayah_tokens, transcript_tokens), Len(ayah_tokens))

\* f"{x:.2f}": hundredths, ties to even
Hundredths(x) ==
    LET q == (x[1] * 100) \div x[2]
        r == (x[1] * 100) % x[2]
    IN  IF 2 * r > x[2] \/ (2 * r = x[2] /\ q % 2 = 1) THEN q + 1 ELSE q

SequenceItem(surah, n, accuracy, flag, missing, extra) ==
    [surah |-> surah, ayah |-> n, confidence |-> accuracy, accuracy |-> accuracy,
     error_flag |-> flag, missing_words |-> missing, extra_words |-> extra]

ErrorItem(surah, n, type, details) ==
    [surah |-> surah, ayah |-> n, type |-> type, details |-> details]

Skipped == [emit |-> FALSE, item |-> None, errors |-> <<>>]

\* errors that report the missing words of every flagged item, even none
ErrorsOfAlwaysMissing(surah, n, accuracy, threshold, flag, missing) ==
    IF ~flag THEN <<>>
    ELSE <<ErrorItem(surah, n, "missing_words", missing),
           ErrorItem(surah, n, "low_accuracy",
                     <<Hundredths(accuracy), Hundredths(threshold)>>)>>

ErrorsOf(surah, n, accuracy, threshold, flag, missing) ==
    IF ~flag THEN <<>>
    ELSE (IF missing # <<>>
          THEN <<ErrorItem(surah, n, "missing_words", missing)>>
          ELSE <<>>)
         \o <<ErrorItem(surah, n, "low_accuracy",
                        <<Hundredths(accuracy), Hundredths(threshold)>>)>>

Emitted(surah, n, accuracy, threshold, missing, extra) ==
    [emit |-> TRUE,
     item |-> SequenceItem(surah, n, accuracy, RLt(accuracy, threshold), missing, extra),
     errors |-> ErrorsOf(surah, n, accuracy, threshold, RLt(accuracy, threshold), missing)]

ScoredStep(ayah_tokens, accuracy, surah, n, tt, threshold) ==
    IF RLt(accuracy, SkipBelowAccuracy) THEN Skipped
    ELSE Emitted(surah, n, accuracy, threshold,
                 SelectSeq(ayah_tokens, LAMBDA w : ~InSeq(w, tt)),
                 SelectSeq(tt, LAMBDA w : ~InSeq(w, ayah_tokens)))

TokensStep(ayah_tokens, surah, n, tt, threshold) ==
    IF ayah_tokens = <<>> THEN Skipped
    ELSE ScoredStep(ayah_tokens, Accuracy(ayah_tokens, tt), surah, n, tt, threshold)

\* what one ayah of the span adds: [emit, item, errors]
AyahStep(sv, surah, n, tt, threshold) ==
    IF ~HasAyah(sv, n) THEN Skipped
    ELSE TokensStep(Split(VerseOfAyah(sv, n).text_norm), surah, n, tt, threshold)

Collect(acc, st) ==
    IF st.emit
    THEN [sequence |-> Append(acc.sequence, st.item), errors |-> acc.errors \o st.errors]
    ELSE acc

\* a walk that ends at the first ayah it does not emit
RECURSIVE WalkUntilSkipped(_, _, _, _, _, _, _)
WalkUntilSkipped(sv, surah, n, end_ayah, tt, threshold, acc) ==
    IF n > end_ayah THEN acc
    ELSE IF ~AyahStep(sv, surah, n, tt, threshold).emit THEN acc
    ELSE WalkUntilSkipped(sv, surah, n + 1, end_ayah, tt, threshold,
                          Collect(acc, AyahStep(sv, surah, n, tt, threshold)))

\* for ayah_num in range(start_ayah, end_ayah + 1)
RECURSIVE Walk(_, _, _, _, _, _, _)
Walk(sv, surah, n, end_ayah, tt, threshold, acc) ==
    IF n > end_ayah THEN acc
    ELSE Walk(sv, surah, n + 1, end_ayah, tt, threshold,
              Collect(acc, AyahStep(sv, surah, n, tt, threshold)))

\* a span one ayah too long
SpanEndOneMore(anchor_ayah, max_span, last_ayah) ==
    IF anchor_ayah + max_span <= last_ayah THEN anchor_ayah + max_span ELSE last_ayah

SpanEnd(anchor_ayah, max_span, last_ayah) == Min(anchor_ayah + max_span - 1, last_ayah)

\* Double-precision arithmetic, for the mean of the accuracies.  A double is
\* [hi, lo, e]: its 53-bit significand is hi * 2^27 + lo, with
\* 2^25 <= hi < 2^26 and 0 <= lo < 2^27, and its value is
\* significand * 2^(e - 52).  An unrounded result carries three more low
\* bits in its low part (lo30), the last of them sticky.
Double(hi, lo, e) == [hi |-> hi, lo |-> lo, e |-> e]

Sticky(lo30, lost) == IF lost /\ lo30 % 2 = 0 THEN lo30 + 1 ELSE lo30

RoundCarry(hi, lo, e) ==
    IF lo < 2^27 THEN Double(hi, lo, e)
    ELSE IF hi + 1 < 2^26 THEN Double(hi + 1, 0, e)
    ELSE Double(2^25, 0, e + 1)

\* round to nearest, ties to even
RoundEven(hi, lo30, e) ==
    IF lo30 % 8 > 4 \/ (lo30 % 8 = 4 /\ (lo30 \div 8) % 2 = 1)
    THEN RoundCarry(hi, (lo30 \div 8) + 1, e)
    ELSE Double(hi, lo30 \div 8, e)

\* the next digits of rem / b, `widths` bits at a time
RECURSIVE LongDivide(_, _, _, _)
LongDivide(rem, b, widths, q) ==
    IF widths = <<>> THEN [q |-> q, r |-> rem]
    ELSE LongDivide((rem * 2^Head(widths)) % b, b, Tail(widths),
                    q * 2^Head(widths) + ((rem * 2^Head(widths)) \div b))

\* the j with b <= a * 2^j < 2 * b, for 0 < a <= b
RECURSIVE ScaleUp(_, _, _)
ScaleUp(a, b, j) == IF a * 2^j >= b THEN j ELSE ScaleUp(a, b, j + 1)

RatioLow(hi, d, e) == RoundEven(hi, Sticky(d.q, d.r # 0), e)

RatioHigh(d, b, e) == RatioLow(d.q, LongDivide(d.r, b, <<10, 10, 10>>, 0), e)

RatioScaled(a, b, j) == RatioHigh(LongDivide(a * 2^j - b, b, <<13, 12>>, 1), b, 0 - j)

\* a / b for integers 0 < a <= b < 2^17, correctly rounded
DoubleOfRatio(a, b) == RatioScaled(a, b, ScaleUp(a, b, 0))

\* y's significand moved d places down beside a significand of greater exponent
ShiftedHi(y, d) == y.hi \div 2^d
ShiftedLo(y, d) ==
    Sticky((y.hi % 2^d) * 2^(30 - d) + ((y.lo * 8) \div 2^d), (y.lo * 8) % 2^d # 0)

AddNormal(hi, lo30, e) ==
    IF hi < 2^26 THEN RoundEven(hi, lo30, e)
    ELSE RoundEven(hi \div 2, Sticky((hi % 2) * 2^29 + (lo30 \div 2), lo30 % 2 = 1), e + 1)

AddAligned(xhi, xlo30, yhi, ylo30, e) ==
    AddNormal(xhi + yhi + ((xlo30 + ylo30) \div 2^30), (xlo30 + ylo30) % 2^30, e)

AddOrdered(x, y) ==
    AddAligned(x.hi, x.lo * 8, ShiftedHi(y, x.e - y.e), ShiftedLo(y, x.e - y.e), x.e)

\* x + y for positive doubles whose exponents differ by less than 27
DoubleAdd(x, y) == IF x.e >= y.e THEN AddOrdered(x, y) ELSE AddOrdered(y, x)

RECURSIVE LeadShift(_, _)
LeadShift(q, j) == IF q * 2^j >= 2^25 THEN j ELSE LeadShift(q, j + 1)

QuotientBits(qhi, qlo, qx, lost, j, e) ==
    RoundEven(qhi * 2^j + (qlo \div 2^(27 - j)),
              Sticky(((qlo % 2^(27 - j)) * 2^j + (qx \div 2^(8 - j))) * 8
                        + ((qx % 2^(8 - j)) \div 2^(5 - j)),
                     lost \/ (qx % 2^(5 - j)) # 0),
              e - j)

QuotientTail(qhi, qlo, r2, n, e) ==
    QuotientBits(qhi, qlo, (r2 * 2^8) \div n, (r2 * 2^8) % n # 0, LeadShift(qhi, 0), e)

DivideLow(x, n, r1) ==
    QuotientTail(x.hi \div n, (r1 * 2^27 + x.lo) \div n, (r1 * 2^27 + x.lo) % n, n, x.e)

\* x / n for a positive double and an integer 0 < n < 16
DoubleDivInt(x, n) == DivideLow(x, n, x.hi % n)

\* -1, 0, 1 as x is below, at, above y
DoubleSign(x, y) ==
    IF x.e # y.e THEN (IF x.e > y.e THEN 1 ELSE 0 - 1)
    ELSE IF x.hi # y.hi THEN (IF x.hi > y.hi THEN 1 ELSE 0 - 1)
    ELSE IF x.lo # y.lo THEN (IF x.lo > y.lo THEN 1 ELSE 0 - 1)
    ELSE 0

DoubleOf(r) == DoubleOfRatio(r[1], r[2])

\* sum(accuracies): added left to right
RECURSIVE DoubleSum(_, _, _)
DoubleSum(sequence, k, acc) ==
    IF k > Len(sequence) THEN acc
    ELSE DoubleSum(sequence, k + 1, DoubleAdd(acc, DoubleOf(sequence[k].accuracy)))

DoubleMean(sequence) ==
    DoubleDivInt(DoubleSum(sequence, 2, DoubleOf(sequence[1].accuracy)), Len(sequence))

\* A rational of the model stands for the double nearest to it.  A double
\* that is not the nearest one to its exact value is kept as that value
\* moved by RoundingStep to the side on which the double lies, a step
\* smaller than any difference the program tests.
RoundingStep == Rat(1, 2^12)
Displaced(r, side) == IF side = 0 THEN r ELSE RAdd(r, RMul(Rat(side, 1), RoundingStep))

ExactMean(sequence) ==
    RDivInt(RSum([i \in 1..Len(sequence) |-> sequence[i].accuracy]), Len(sequence))

MeanOf(exact, computed) == Displaced(exact, DoubleSign(computed, DoubleOf(exact)))

\* a global accuracy read from the first item alone
GlobalAccuracyOfFirst(sequence) == sequence[1].accuracy

\* float(sum(accuracies) / len(accuracies))
GlobalAccuracy(sequence) == MeanOf(ExactMean(sequence), DoubleMean(sequence))

ResultOf(surah, w) ==
    IF w.sequence = <<>> THEN base_result
    ELSE [surah |-> Some(surah),
          sequence |-> w.sequence,
          global_accuracy |-> Some(GlobalAccuracy(w.sequence)),
          errors |-> w.errors]

AnalyzeSpan(sv, anchor, tt, max_span, threshold) ==
    IF sv = <<>> THEN base_result
    ELSE ResultOf(anchor.surah,
                  Walk(sv, anchor.surah, anchor.ayah,
                       SpanEnd(anchor.ayah, max_span, sv[Len(sv)].ayah),
                       tt, threshold, [sequence |-> <<>>, errors |-> <<>>]))

\* an anchor test that also turns away a confidence of exactly 0.3
AnalyzeAnchoredInclusive(verses, tt, anchor, max_span, threshold) ==
    IF RLe(anchor.confidence, AnchorMinConfidence) THEN base_result
    ELSE AnalyzeSpan(SurahVerses(verses, anchor.surah), anchor, tt, max_span, threshold)

AnalyzeAnchored(verses, tt, anchor, max_span, threshold) ==
    IF RLt(anchor.confidence, AnchorMinConfidence) THEN base_result
    ELSE AnalyzeSpan(SurahVerses(verses, anchor.surah), anchor, tt, max_span, threshold)

AnalyzeFrom(verses, tt, matches, max_span, threshold) ==
    IF matches = <<>> THEN base_result
    ELSE AnalyzeAnchored(verses, tt, AnchorMatch(matches), max_span, threshold)

AnalyzeMatched(c, tn, m, max_span, threshold) ==
    IF m.raised THEN [raised |-> TRUE, value |-> base_result]
    ELSE [raised |-> FALSE,
          value |-> AnalyzeFrom(c.verses, Split(tn), m.value, max_span, threshold)]

AnalyzeNormalized(rapid, c, transcript, tn, max_span, threshold) ==
    IF tn = <<>> THEN [raised |-> FALSE, value |-> base_result]
    ELSE AnalyzeMatched(c, tn,
                        match_transcript_to_verses(rapid, c, transcript, TopKAnchor),
                        max_span, threshold)

analyze_quran_recitation_transcript(rapid, c, transcript, max_span, threshold) ==
    IF transcript = <<>> THEN [raised |-> FALSE, value |-> base_result]
    ELSE AnalyzeNormalized(rapid, c, transcript, normalize_arabic(transcript),
                           max_span, threshold)

-----------------------------------------------------------------------------
(* Values as the classifier meets them: a field of an alignment may hold   *)
(* a number, None, or something float() and int() reject.                  *)

Num(r) == [kind |-> "num", val |-> r]
NoneV == [kind |-> "none", val |-> Zero]
BadV == [kind |-> "bad", val |-> Zero]

FloatRaises(x) == x.kind # "num"
\* int(x) truncates toward zero
Trunc(r) == IF r[1] >= 0 THEN r[1] \div r[2] ELSE -((-r[1]) \div r[2])

DynMatch(m) == [surah |-> Num(Rat(m.surah, 1)), ayah |-> Num(Rat(m.ayah, 1)),
                confidence |-> Num(m.confidence)]
DynMatches(ms) == [i \in 1..Len(ms) |-> DynMatch(ms[i])]
DynItem(it) == [surah |-> Num(Rat(it.surah, 1)), ayah |-> Num(Rat(it.ayah, 1))]
DynSequence(sq) == [i \in 1..Len(sq) |-> DynItem(sq[i])]
DynOpt(o) == IF o.some THEN Num(o.val) ELSE NoneV

-----------------------------------------------------------------------------
(* quran_classify.summarize_alignment_result *)

DefaultSummaryAccuracy == Rat(1, 2)
DefaultSummaryConfidence == Rat(6, 10)
GoodAccuracy == Rat(9, 10)

\* a gate that wants the accuracy strictly above its threshold
IsQuranStrictAccuracy(global_accuracy, n_sequence, quran_confidence, at, ct) ==
    /\ global_accuracy.some
    /\ RGt(global_accuracy.val, at)
    /\ n_sequence >= 1
    /\ RGe(quran_confidence, ct)

\* the four gating conditions
IsQuran(global_accuracy, n_sequence, quran_confidence, at, ct) ==
    /\ global_accuracy.some
    /\ RGe(global_accuracy.val, at)
    /\ n_sequence >= 1
    /\ RGe(quran_confidence, ct)

\* a labelling that wants the accuracy strictly above 0.9 for quran_good
LabelStrictGood(is_quran, global_accuracy, n_errors) ==
    IF ~is_quran THEN "not_quran"
    ELSE IF RGt(IF global_accuracy.some THEN global_accuracy.val ELSE Zero, GoodAccuracy)
            /\ n_errors = 0
         THEN "quran_good"
    ELSE IF n_errors > 0 THEN "quran_with_errors"
    ELSE "quran_uncertain"

Label(is_quran, global_accuracy, n_errors) ==
    IF ~is_quran THEN "not_quran"
    ELSE IF RGe(IF global_accuracy.some THEN global_accuracy.val ELSE Zero, GoodAccuracy)
            /\ n_errors = 0
         THEN "quran_good"
    ELSE IF n_errors > 0 THEN "quran_with_errors"
    ELSE "quran_uncertain"

NoSpan == [main_surah |-> None, ayah_start |-> None, ayah_end |-> None]

SpanOfAyahs(surah, ayahs) ==
    [main_surah |-> Some(surah), ayah_start |-> Some(SetMin(ayahs)),
     ayah_end |-> Some(SetMax(ayahs))]

\* a span read without the try/except around int()
SpanOfUnguarded(sequence, matches) ==
    IF sequence # <<>>
    THEN SpanOfAyahs(Trunc(sequence[1].surah.val),
                     {Trunc(sequence[i].ayah.val) : i \in 1..Len(sequence)})
    ELSE IF matches # <<>>
    THEN SpanOfAyahs(Trunc(matches[1].surah.val), {Trunc(matches[1].ayah.val)})
    ELSE NoSpan

\* main_surah, ayah_start, ayah_end
SpanOf(sequence, matches) ==
    IF sequence # <<>>
    THEN IF \E i \in 1..Len(sequence) :
                FloatRaises(sequence[i].ayah) \/ FloatRaises(sequence[1].surah)
         THEN NoSpan
         ELSE SpanOfAyahs(Trunc(sequence[1].surah.val),
                          {Trunc(sequence[i].ayah.val) : i \in 1..Len(sequence)})
    ELSE IF matches # <<>>
    THEN IF FloatRaises(matches[1].surah) \/ FloatRaises(matches[1].ayah)
         THEN NoSpan
         ELSE SpanOfAyahs(Trunc(matches[1].surah.val), {Trunc(matches[1].ayah.val)})
    ELSE NoSpan

\* a confidence read from the last match instead of the best one
QuranConfidenceOfLast(matches) ==
    IF matches = <<>> THEN Zero
    ELSE IF FloatRaises(matches[Len(matches)].confidence) THEN Zero
    ELSE matches[Len(matches)].confidence.val

QuranConfidence(matches) ==
    IF matches = <<>> THEN Zero
    ELSE IF FloatRaises(matches[1].confidence) THEN Zero
    ELSE matches[1].confidence.val

\* float(global_accuracy_raw), None when absent or rejected
AccuracyOf(raw) == IF raw.kind = "num" THEN Some(raw.val) ELSE None

Summary(is_quran, global_accuracy, quran_confidence, span, errors) ==
    [is_quran |-> is_quran,
     label |-> Label(is_quran, global_accuracy, Len(errors)),
     quran_confidence |-> quran_confidence,
     main_surah |-> span.main_surah,
     ayah_start |-> span.ayah_start,
     ayah_end |-> span.ayah_end,
     recitation_accuracy |-> global_accuracy,
     issues_count |-> Len(errors),
     issues |-> errors]

summarize_alignment_result(align, at, ct) ==
    Summary(IsQuran(AccuracyOf(align.global_accuracy), Len(align.sequence),
                    QuranConfidence(align.matches), at, ct),
            AccuracyOf(align.global_accuracy),
            QuranConfidence(align.matches),
            SpanOf(align.sequence, align.matches),
            align.errors)

-----------------------------------------------------------------------------
(* quran_align: _compute_is_quran_like, align_quran_text *)

\* a heuristic satisfied by a best confidence the classifier refuses
LikeConfidenceOneHalf == Rat(1, 2)

LikeMinConfidence == Rat(7, 10)
LikeMinAccuracy == Rat(1, 2)

\* the heuristic run on the classifier's default thresholds
ComputeLikeAtClassifierThresholds(matches, global_accuracy) ==
    IF matches = <<>> THEN FALSE
    ELSE /\ RGe(IF FloatRaises(matches[1].confidence) THEN Zero
                ELSE matches[1].confidence.val,
                DefaultSummaryConfidence)
         /\ RGe(IF FloatRaises(global_accuracy) THEN Zero ELSE global_accuracy.val,
                DefaultSummaryAccuracy)

_compute_is_quran_like(matches, global_accuracy) ==
    IF matches = <<>> THEN FALSE
    ELSE /\ RGe(IF FloatRaises(matches[1].confidence) THEN Zero
                ELSE matches[1].confidence.val,
                LikeMinConfidence)
         /\ RGe(IF FloatRaises(global_accuracy) THEN Zero ELSE global_accuracy.val,
                LikeMinAccuracy)

TextAlignment(transcript, matches, sequence, ga, errors, like) ==
    [transcript |-> transcript, matches |-> matches, sequence |-> sequence,
     global_accuracy |-> ga, errors |-> errors, is_quran_like |-> like]

\* Whatever is raised inside the try block is logged and `base` is returned
\* as filled so far.
AlignAnalyzed(transcript, matches, a) ==
    IF a.raised THEN TextAlignment(transcript, matches, <<>>, None, <<>>, None)
    ELSE TextAlignment(transcript, matches, a.value.sequence,
                       a.value.global_accuracy, a.value.errors,
                       Some(_compute_is_quran_like(DynMatches(matches),
                                                   DynOpt(a.value.global_accuracy))))

AlignMatched(rapid, c, transcript, m) ==
    IF m.raised THEN TextAlignment(transcript, <<>>, <<>>, None, <<>>, None)
    ELSE AlignAnalyzed(transcript, m.value,
                       analyze_quran_recitation_transcript(
                           rapid, c, transcript, DefaultMaxSpan, DefaultAccuracyThreshold))

align_quran_text(rapid, c, transcript) ==
    AlignMatched(rapid, c, transcript,
                 match_transcript_to_verses(rapid, c, transcript, TopKAnchor))

-----------------------------------------------------------------------------
(* quran_timeline.build_ayah_timeline.  An audio is its sample count, its  *)
(* sample rate and the intervals librosa.effects.split finds in it, in     *)
(* seconds.                                                                *)

DefaultMargin == Rat(15, 100)

Audio(size, rate, intervals) == [size |-> size, rate |-> rate, intervals |-> intervals]

_compute_speech_segments(audio) ==
    IF audio.size = 0 \/ audio.rate <= 0 THEN <<>>
    ELSE SelectSeq(audio.intervals, LAMBDA iv : RGt(iv[2], iv[1]))

TotalSpeech(segments) == RSum([i \in 1..Len(segments) |-> RSub(segments[i][2], segments[i][1])])

\* an entry with its two instants exchanged
TimelineItemSwapped(item, start, end) ==
    [surah |-> item.surah, ayah |-> item.ayah, start |-> end, end |-> start]

TimelineItem(item, start, end) ==
    [surah |-> item.surah, ayah |-> item.ayah, start |-> start, end |-> end]

\* the while loop that advances to the segment covering target_start;
\* seg_idx counts from 0 as in the source
RECURSIVE AdvanceSegment(_, _, _)
AdvanceSegment(segments, target_start, st) ==
    IF st.seg_idx < Len(segments) /\ RGe(target_start, st.seg_end)
    THEN LET idx == st.seg_idx + 1
         IN  AdvanceSegment(segments, target_start,
                 IF idx < Len(segments)
                 THEN [st EXCEPT !.seg_idx = idx,
                                 !.seg_start = segments[idx + 1][1],
                                 !.seg_end = segments[idx + 1][2],
                                 !.current_t = RMax(st.current_t, segments[idx + 1][1])]
                 ELSE [st EXCEPT !.seg_idx = idx])
    ELSE st

\* an append that leaves the cursor where it was
AssignedCursorKept(st, item, start_t, end_t) ==
    [st EXCEPT !.timeline = Append(st.timeline, TimelineItem(item, start_t, end_t))]

\* timeline.append(...); current_t = end_t
Assigned(st, item, start_t, end_t) ==
    [st EXCEPT !.timeline = Append(st.timeline, TimelineItem(item, start_t, end_t)),
               !.current_t = end_t]

\* for item in sequence
RECURSIVE AssignWindows(_, _, _, _, _, _, _)
AssignWindows(segments, sequence, i, per_ayah, margin, duration, st) ==
    IF i > Len(sequence) THEN st.timeline
    ELSE LET target_start == st.current_t
             target_end == RAdd(st.current_t, per_ayah)
             s1 == AdvanceSegment(segments, target_start, st)
         IN  IF s1.seg_idx >= Len(segments) THEN s1.timeline
             ELSE LET start0 == RMax(s1.current_t, s1.seg_start)
                      end0 == RMin(target_end, s1.seg_end)
                      collapsed == RLe(end0, start0)
                      start1 == IF collapsed
                                THEN RMax(s1.seg_start, RMin(s1.current_t, s1.seg_end))
                                ELSE start0
                      end1 == IF collapsed THEN s1.seg_end ELSE end0
                      start_t == RMax(Zero, RSub(start1, margin))
                      end_t == RMin(duration, RAdd(end1, margin))
                  IN  AssignWindows(segments, sequence, i + 1, per_ayah, margin, duration,
                          Assigned(s1, sequence[i], start_t, end_t))

WholeAudio(duration_sec) == << <<Zero, duration_sec>> >>

TimelineOver(segments, total_speech, sequence, margin_s, duration_sec) ==
    IF RLe(total_speech, Zero) THEN <<>>
    ELSE AssignWindows(segments, sequence, 1,
                       RDivInt(total_speech, Max(1, Len(sequence))),
                       margin_s, duration_sec,
                       [seg_idx |-> 0,
                        seg_start |-> segments[1][1],
                        seg_end |-> segments[1][2],
                        current_t |-> segments[1][1],
                        timeline |-> <<>>])

\* the two fallbacks to one segment spanning the audio
TimelineFrom(found, sequence, margin_s, duration_sec) ==
    IF found = <<>> \/ RLe(TotalSpeech(found), Zero)
    THEN TimelineOver(WholeAudio(duration_sec), duration_sec, sequence, margin_s, duration_sec)
    ELSE TimelineOver(found, TotalSpeech(found), sequence, margin_s, duration_sec)

build_ayah_timeline(audio, sequence, margin_s) ==
    IF sequence = <<>> THEN <<>>
    ELSE IF audio.size = 0 \/ audio.rate <= 0 THEN <<>>
    ELSE TimelineFrom(_compute_speech_segments(audio), sequence, margin_s,
                      Rat(audio.size, audio.rate))

-----------------------------------------------------------------------------
(* quran_align.align_quran *)

\* the transcript used when no Whisper implementation is installed
DummyTranscript ==
    <<"alif", "lam", "ha", "mim", "dal", "space",
      "lam", "lam", "ha", "space",
      "ra", "ba", "space",
      "alif", "lam", "ain", "alif", "lam", "mim", "yaa", "nun">>

DummyConfidence == Rat(95, 100)

_dummy_alignment_result ==
    [verses |-> <<Match(1, 1, DummyConfidence)>>,
     integrity_score |-> 95,
     flags |-> <<>>,
     matches |-> <<Match(1, 1, DummyConfidence)>>,
     transcript |-> None,
     sequence |-> <<>>,
     global_accuracy |-> None,
     errors |-> <<>>,
     is_quran_like |-> None,
     timeline |-> <<>>]

\* str.strip()
RECURSIVE LStrip(_)
LStrip(s) == IF s # <<>> /\ Head(s) \in Whitespace THEN LStrip(Tail(s)) ELSE s
RECURSIVE RStrip(_)
RStrip(s) ==
    IF s # <<>> /\ s[Len(s)] \in Whitespace THEN RStrip(SubSeq(s, 1, Len(s) - 1)) ELSE s
Strip(s) == RStrip(LStrip(s))

\* `asr` is what the Whisper model does with the audio: it raises, or it
\* returns a text
AsrRaises == [raises |-> TRUE, text |-> <<>>]
AsrText(t) == [raises |-> FALSE, text |-> t]
\* no Whisper implementation installed: the model is never called
NotCalled == [raises |-> FALSE, text |-> <<>>]

Transcribe(whisperAvailable, asr) ==
    IF whisperAvailable
    THEN IF asr.raises THEN <<>> ELSE Strip(asr.text)
    ELSE DummyTranscript

\* int(max(0.0, min(1.0, confidence)) * 100)
IntegrityScore(confidence) ==
    Trunc(RMul(RMax(Zero, RMin(One, confidence)), Rat(100, 1)))

AudioAlignment(ta, like, audio) ==
    [verses |-> IF ta.matches # <<>> THEN <<ta.matches[1]>> ELSE <<>>,
     integrity_score |-> IF ta.matches # <<>>
                         THEN IntegrityScore(ta.matches[1].confidence)
                         ELSE 0,
     flags |-> IF like THEN <<>> ELSE <<"non_quran_like">>,
     matches |-> ta.matches,
     transcript |-> Some(ta.transcript),
     sequence |-> ta.sequence,
     global_accuracy |-> ta.global_accuracy,
     errors |-> ta.errors,
     is_quran_like |-> Some(like),
     timeline |-> build_ayah_timeline(audio, ta.sequence, DefaultMargin)]

\* is_quran_like is computed again from the text alignment
AlignFromText(ta, audio) ==
    AudioAlignment(ta, _compute_is_quran_like(DynMatches(ta.matches),
                                              DynOpt(ta.global_accuracy)),
                   audio)

AlignTranscribed(rapid, c, transcript, audio) ==
    IF transcript = <<>> THEN _dummy_alignment_result
    ELSE AlignFromText(align_quran_text(rapid, c, transcript), audio)

align_quran(rapid, c, whisperAvailable, asr, audio) ==
    AlignTranscribed(rapid, c, Transcribe(whisperAvailable, asr), audio)

-----------------------------------------------------------------------------
(* Inputs *)

RECURSIVE SeqsUpTo(_, _)
SeqsUpTo(S, n) ==
    IF n = 0 THEN {<<>>}
    ELSE LET shorter == SeqsUpTo(S, n - 1)
         IN  shorter \cup {Append(t, c) : t \in {u \in shorter : Len(u) = n - 1}, c \in S}

TranscriptAlphabet == {"ba", "lam", "space", "fatha"}
Transcripts == SeqsUpTo(TranscriptAlphabet, MaxLen)

\* one or two characters of every class the normalizer tells apart
NormalizeAlphabet ==
    {"ba", "fatha", "sukun", "tatweel", "alif_hamza_above", "alif_maksura",
     "arabic_comma", "latin", "space", "newline"}
Texts == SeqsUpTo(NormalizeAlphabet, MaxText)

TopKs == (0 - 1)..MaxTopK
MaxSpans == ((0 - 1)..MaxSpanArg) \cup {DefaultMaxSpan}
\* the default, a lower one, and one no accuracy reaches
AccuracyThresholds == {DefaultAccuracyThreshold, Rat(1, 2), Rat(3, 2)}

MalformedData == << Good(1, 1, <<"ba">>), RawItem(AbsentField, IntField(2), W(<<"lam">>)) >>
DataFiles == {DataFile(d) : d \in GoodCorpora} \cup {DataFile(MalformedData), MissingFile}

\* records that depart from {surah: int, ayah: int, text: string}: one
\* without "text", one whose surah is a numeric string
TextlessData == << Good(1, 1, <<"ba">>), RawItem(IntField(1), IntField(2), AbsentText) >>
NumStrData == << RawItem(NumStrField(1), IntField(1), W(<<"ba">>)) >>
LoadDataFiles == DataFiles \cup {DataFile(TextlessData), DataFile(NumStrData)}

DataRaises(file) ==
    \/ ~file.exists
    \/ \E i \in 1..Len(file.items) : ItemRaises(file.items[i])

\* what a completed call of load_quran_verses() gives its caller
Loaded(file) ==
    IF DataRaises(file) THEN [raises |-> TRUE, verses |-> <<>>]
    ELSE [raises |-> FALSE, verses |-> LoadAll(file.items)]

Audios ==
    { Audio(0, 16000, <<>>),
      Audio(4, 1, <<>>),
      Audio(4, 1, << <<Rat(0, 1), Rat(1, 1)>>, <<Rat(2, 1), Rat(7, 2)>> >>) }

\* audios handed to the timeline builder: durations of 0, 1/4, 1 and 4
\* seconds, with the speech intervals found in them, sorted and disjoint
TimelineAudios ==
    Audios \cup
    { Audio(1, 4, <<>>),
      Audio(1, 1, <<>>),
      Audio(4, 1, << <<Rat(0, 1), Rat(1, 1)>> >>),
      Audio(4, 1, << <<Rat(1, 2), Rat(1, 1)>>, <<Rat(1, 1), Rat(1, 1)>>,
                     <<Rat(3, 1), Rat(4, 1)>> >>),
      Audio(4, 0, << <<Rat(0, 1), Rat(1, 1)>> >>) }

Margins == {Zero, DefaultMargin, One}

AyahRuns == {[i \in 1..n |-> [surah |-> 2, ayah |-> i]] : n \in 0..MaxAyahs}

AsrOutcomes == {AsrRaises} \cup {AsrText(t) : t \in Transcripts}

SummaryAccuracies == {DefaultSummaryAccuracy, Rat(9, 10)}
SummaryConfidences == {DefaultSummaryConfidence, Rat(8, 10)}

DynConfidences == {Num(Rat(n, 10)) : n \in {0, 5, 6, 7, 10}} \cup {BadV}
DynAccuracies == {Num(Rat(n, 100)) : n \in {40, 50, 89, 90, 100}} \cup {NoneV, BadV}
\* surah and ayah numbers as a caller may hand them over: an integer, a
\* fractional number, a value int() rejects
DynNumbers == {Num(Rat(2, 1)), Num(Rat(5, 2)), BadV}
DynMatchLists ==
    {<<>>} \cup {<<[surah |-> Num(Rat(2, 1)), ayah |-> Num(Rat(3, 1)), confidence |-> c]>> :
                    c \in DynConfidences}
           \cup {<<[surah |-> x, ayah |-> y, confidence |-> Num(One)]>> :
                    x \in DynNumbers, y \in DynNumbers}
DynSequences ==
    {[i \in 1..n |-> [surah |-> Num(Rat(1, 1)), ayah |-> Num(Rat(i, 1))]] : n \in 0..MaxItems}
    \cup {<<[surah |-> x, ayah |-> Num(One)], [surah |-> Num(One), ayah |-> y]>> :
             x \in DynNumbers, y \in DynNumbers}
DynErrorLists == {<<>>, <<ErrorItem(1, 1, "low_accuracy", <<50, 90>>)>>}

DynAlignments ==
    [matches : DynMatchLists, sequence : DynSequences,
     global_accuracy : DynAccuracies, errors : DynErrorLists]

\* the alignment as the classifier reads it
DynAlignment(r) ==
    [matches |-> DynMatches(r.matches), sequence |-> DynSequence(r.sequence),
     global_accuracy |-> DynOpt(r.global_accuracy), errors |-> r.errors]

-----------------------------------------------------------------------------
(* Requests served against a loaded corpus *)

NoOp == [name |-> "none"]
NoResult == [raised |-> FALSE, value |-> <<>>]
NoSummary == [present |-> FALSE]

\* no worker thread is inside align_quran and no model was built
NoModel == 0
WhisperIdle ==
    /\ whisperModel = NoModel
    /\ modelsBuilt = 0
    /\ modelsUsed = {}
    /\ wpc = <<>>
    /\ wmodel = <<>>
    /\ wcalls = <<>>

LoadIdle ==
    /\ cache = None
    /\ loadCount = 0
    /\ nextObj = 1
    /\ tpc = <<>>
    /\ tlocal = <<>>
    /\ tres = <<>>
    /\ tcalls = <<>>

Init ==
    /\ hasRapidfuzz \in BOOLEAN
    /\ rawData \in DataFiles
    /\ corpus = Loaded(rawData)
    /\ pc = "idle"
    /\ op = NoOp
    /\ result = NoResult
    /\ summary = NoSummary
    /\ LoadIdle
    /\ WhisperIdle

CallMatch ==
    /\ pc = "idle"
    /\ \E t \in Transcripts, k \in TopKs :
          /\ op' = [name |-> "match", transcript |-> t, top_k |-> k]
          /\ result' = match_transcript_to_verses(hasRapidfuzz, corpus, t, k)
    /\ pc' = "done"
    /\ UNCHANGED <<hasRapidfuzz, rawData, corpus, summary, loadVars, whisperVars>>

CallAnalyze ==
    /\ pc = "idle"
    /\ \E t \in Transcripts, ms \in MaxSpans, th \in AccuracyThresholds :
          /\ op' = [name |-> "analyze", transcript |-> t, max_span |-> ms,
                    accuracy_threshold |-> th]
          /\ result' = analyze_quran_recitation_transcript(hasRapidfuzz, corpus, t, ms, th)
          /\ corpus' = [corpus EXCEPT !.verses = CachedAfterAnalyze(
                            @, match_transcript_to_verses(hasRapidfuzz, corpus, t,
                                                          TopKAnchor).value)]
    /\ pc' = "done"
    /\ UNCHANGED <<hasRapidfuzz, rawData, summary, loadVars, whisperVars>>

CallAlignText ==
    /\ pc = "idle"
    /\ \E t \in Transcripts :
          /\ op' = [name |-> "align_text", transcript |-> t]
          /\ result' = [raised |-> FALSE,
                        value |-> align_quran_text(hasRapidfuzz, corpus, t)]
    /\ corpus' = [corpus EXCEPT !.verses = CachedAfterAnalyze(@, result'.value.matches)]
    /\ pc' = "aligned"
    /\ UNCHANGED <<hasRapidfuzz, rawData, summary, loadVars, whisperVars>>

CallAlignQuran ==
    /\ pc = "idle"
    /\ \E w \in BOOLEAN, au \in Audios :
       \E asr \in (IF w THEN AsrOutcomes ELSE {NotCalled}) :
          /\ op' = [name |-> "align_quran", whisper |-> w, asr |-> asr, audio |-> au,
                    transcript |-> Transcribe(w, asr)]
          /\ result' = [raised |-> FALSE,
                        value |-> align_quran(hasRapidfuzz, corpus, w, asr, au)]
    /\ corpus' = [corpus EXCEPT !.verses =
                      IF op'.transcript = <<>> THEN @
                      ELSE CachedAfterAnalyze(@, result'.value.matches)]
    /\ pc' = "aligned"
    /\ UNCHANGED <<hasRapidfuzz, rawData, summary, loadVars, whisperVars>>

\* the classification handlers: is_quran_text and is_quran_audio summarise
\* the alignment they just computed
CallSummarize ==
    /\ pc = "aligned"
    /\ \E at \in SummaryAccuracies, ct \in SummaryConfidences :
          summary' = [present |-> TRUE, at |-> at, ct |-> ct,
                      input |-> DynAlignment(result.value),
                      value |-> summarize_alignment_result(DynAlignment(result.value), at, ct)]
    /\ pc' = "done"
    /\ UNCHANGED <<hasRapidfuzz, rawData, corpus, op, result, loadVars, whisperVars>>

\* summarize_alignment_result called on an alignment built elsewhere
CallSummarizeAny ==
    /\ pc = "idle"
    /\ \E al \in DynAlignments, at \in SummaryAccuracies, ct \in SummaryConfidences :
          summary' = [present |-> TRUE, at |-> at, ct |-> ct, input |-> al,
                      value |-> summarize_alignment_result(al, at, ct)]
    /\ op' = [name |-> "summarize"]
    /\ pc' = "done"
    /\ UNCHANGED <<hasRapidfuzz, rawData, corpus, result, loadVars, whisperVars>>

\* _compute_is_quran_like called on matches and an accuracy built elsewhere
CallIsQuranLike ==
    /\ pc = "idle"
    /\ \E ms \in DynMatchLists, ga \in DynAccuracies :
          /\ op' = [name |-> "is_quran_like", matches |-> ms, global_accuracy |-> ga]
          /\ result' = [raised |-> FALSE, value |-> _compute_is_quran_like(ms, ga)]
    /\ pc' = "done"
    /\ UNCHANGED <<hasRapidfuzz, rawData, corpus, summary, loadVars, whisperVars>>

\* normalize_arabic called on a text of any kind
CallNormalize ==
    /\ pc = "idle"
    /\ \E t \in Texts :
          /\ op' = [name |-> "normalize", text |-> t]
          /\ result' = [raised |-> FALSE, value |-> normalize_arabic(t)]
    /\ pc' = "done"
    /\ UNCHANGED <<hasRapidfuzz, rawData, corpus, summary, loadVars, whisperVars>>

\* build_ayah_timeline called on a sequence built elsewhere
CallTimeline ==
    /\ pc = "idle"
    /\ \E au \in TimelineAudios, sq \in AyahRuns, mg \in Margins :
          /\ op' = [name |-> "timeline", audio |-> au, sequence |-> sq, margin |-> mg]
          /\ result' = [raised |-> FALSE, value |-> build_ayah_timeline(au, sq, mg)]
    /\ pc' = "done"
    /\ UNCHANGED <<hasRapidfuzz, rawData, corpus, summary, loadVars, whisperVars>>

Return ==
    /\ pc \in {"done", "aligned"}
    /\ pc' = "idle"
    /\ op' = NoOp
    /\ result' = NoResult
    /\ summary' = NoSummary
    /\ UNCHANGED <<hasRapidfuzz, rawData, corpus, loadVars, whisperVars>>

Next ==
    \/ CallMatch
    \/ CallAnalyze
    \/ CallAlignText
    \/ CallAlignQuran
    \/ CallSummarize
    \/ CallSummarizeAny
    \/ CallTimeline
    \/ CallNormalize
    \/ CallIsQuranLike
    \/ Return

Spec == Init /\ [][Next]_vars

-----------------------------------------------------------------------------
(* Concurrent callers of load_quran_verses.  The function is wrapped by    *)
(* functools.lru_cache: a call looks the key up, on a miss runs the body   *)
(* outside any lock, and on return stores the result unless another call   *)
(* has stored one meanwhile; either way the caller gets the list its own   *)
(* run of the body built.  An exception leaves the cache untouched.        *)

Threads == 1..NumThreads

NoLocal == [obj |-> 0, verses |-> <<>>]
NoLoadResult == [kind |-> "none", obj |-> 0, verses |-> <<>>]
LoadRaised == [kind |-> "raised", obj |-> 0, verses |-> <<>>]
LoadValue(l) == [kind |-> "value", obj |-> l.obj, verses |-> l.verses]

InitLoad ==
    /\ hasRapidfuzz \in BOOLEAN
    /\ rawData \in LoadDataFiles
    /\ corpus = Loaded(rawData)
    /\ pc = "idle"
    /\ op = NoOp
    /\ result = NoResult
    /\ summary = NoSummary
    /\ cache = None
    /\ loadCount = 0
    /\ nextObj = 1
    /\ tpc = [t \in Threads |-> "idle"]
    /\ tlocal = [t \in Threads |-> NoLocal]
    /\ tres = [t \in Threads |-> NoLoadResult]
    /\ tcalls = [t \in Threads |-> 0]
    /\ WhisperIdle

\* the wrapper's lookup: a hit returns the stored list
LoadCall(t) ==
    /\ tpc[t] = "idle"
    /\ tcalls[t] < MaxCalls
    /\ tcalls' = [tcalls EXCEPT ![t] = @ + 1]
    /\ IF cache.some
       THEN /\ tres' = [tres EXCEPT ![t] = LoadValue(cache.val)]
            /\ tpc' = [tpc EXCEPT ![t] = "done"]
       ELSE /\ tres' = tres
            /\ tpc' = [tpc EXCEPT ![t] = "miss"]
    /\ UNCHANGED <<hasRapidfuzz, rawData, corpus, pipeVars, whisperVars, cache, loadCount, nextObj, tlocal>>

\* the body opens and parses the file, and starts a new list
LoadOpen(t) ==
    /\ tpc[t] = "miss"
    /\ loadCount' = loadCount + 1
    /\ IF rawData.exists
       THEN /\ tlocal' = [tlocal EXCEPT ![t] = [obj |-> nextObj, verses |-> <<>>]]
            /\ nextObj' = nextObj + 1
            /\ tpc' = [tpc EXCEPT ![t] = "parse"]
            /\ tres' = tres
       ELSE /\ tres' = [tres EXCEPT ![t] = LoadRaised]
            /\ tpc' = [tpc EXCEPT ![t] = "done"]
            /\ UNCHANGED <<tlocal, nextObj>>
    /\ UNCHANGED <<hasRapidfuzz, rawData, corpus, pipeVars, whisperVars, cache, tcalls>>

\* one turn of the loop over the records
LoadParseItem(t) ==
    /\ tpc[t] = "parse"
    /\ Len(tlocal[t].verses) < Len(rawData.items)
    /\ IF ItemRaises(rawData.items[Len(tlocal[t].verses) + 1])
       THEN /\ tres' = [tres EXCEPT ![t] = LoadRaised]
            /\ tpc' = [tpc EXCEPT ![t] = "done"]
            /\ tlocal' = [tlocal EXCEPT ![t] = NoLocal]
       ELSE /\ tlocal' = [tlocal EXCEPT ![t].verses =
                             Append(@, LoadItem(rawData.items[Len(@) + 1]))]
            /\ UNCHANGED <<tres, tpc>>
    /\ UNCHANGED <<hasRapidfuzz, rawData, corpus, pipeVars, whisperVars, cache, loadCount, nextObj, tcalls>>

\* a store that publishes the list while the loop is still filling it
LoadStoreEarly(t) ==
    /\ tpc[t] = "parse"
    /\ Len(tlocal[t].verses) >= 1
    /\ cache' = IF cache.some THEN cache ELSE Some(tlocal[t])
    /\ tres' = [tres EXCEPT ![t] = LoadValue(tlocal[t])]
    /\ tlocal' = [tlocal EXCEPT ![t] = NoLocal]
    /\ tpc' = [tpc EXCEPT ![t] = "done"]
    /\ UNCHANGED <<hasRapidfuzz, rawData, corpus, pipeVars, whisperVars, loadCount, nextObj, tcalls>>

\* the body returns; the wrapper stores the list if the key is still absent
LoadStore(t) ==
    /\ tpc[t] = "parse"
    /\ Len(tlocal[t].verses) = Len(rawData.items)
    /\ cache' = IF cache.some THEN cache ELSE Some(tlocal[t])
    /\ tres' = [tres EXCEPT ![t] = LoadValue(tlocal[t])]
    /\ tlocal' = [tlocal EXCEPT ![t] = NoLocal]
    /\ tpc' = [tpc EXCEPT ![t] = "done"]
    /\ UNCHANGED <<hasRapidfuzz, rawData, corpus, pipeVars, whisperVars, loadCount, nextObj, tcalls>>

\* the caller is done with what it received
LoadReturn(t) ==
    /\ tpc[t] = "done"
    /\ tpc' = [tpc EXCEPT ![t] = "idle"]
    /\ tres' = [tres EXCEPT ![t] = NoLoadResult]
    /\ UNCHANGED <<hasRapidfuzz, rawData, corpus, pipeVars, whisperVars, cache, loadCount, nextObj,
                   tlocal, tcalls>>

NextLoad ==
    \/ \E t \in Threads : LoadCall(t)
    \/ \E t \in Threads : LoadOpen(t)
    \/ \E t \in Threads : LoadParseItem(t)
    \/ \E t \in Threads : LoadStore(t)
    \/ \E t \in Threads : LoadReturn(t)

SpecLoad == InitLoad /\ [][NextLoad]_vars

-----------------------------------------------------------------------------
(* Worker threads serving /quran/align with a Whisper backend installed:   *)
(* align_quran, _transcribe_with_whisper, _get_whisper_model               *)

InitWhisper ==
    /\ hasRapidfuzz \in BOOLEAN
    /\ rawData = DataFile(CorpusMain)
    /\ corpus = Loaded(rawData)
    /\ pc = "idle"
    /\ op = NoOp
    /\ result = NoResult
    /\ summary = NoSummary
    /\ LoadIdle
    /\ whisperModel = NoModel
    /\ modelsBuilt = 0
    /\ modelsUsed = {}
    /\ wpc = [t \in Threads |-> "idle"]
    /\ wmodel = [t \in Threads |-> NoModel]
    /\ wcalls = [t \in Threads |-> 0]

\* the handler calls align_quran, which goes on to _get_whisper_model()
WhisperRequest(t) ==
    /\ wpc[t] = "idle"
    /\ wcalls[t] < MaxCalls
    /\ wcalls' = [wcalls EXCEPT ![t] = @ + 1]
    /\ wpc' = [wpc EXCEPT ![t] = "check"]
    /\ UNCHANGED <<hasRapidfuzz, rawData, corpus, pipeVars, loadVars,
                   whisperModel, modelsBuilt, modelsUsed, wmodel>>

\* if _whisper_model is not None: return _whisper_model
WhisperCheck(t) ==
    /\ wpc[t] = "check"
    /\ IF whisperModel # NoModel
       THEN /\ wmodel' = [wmodel EXCEPT ![t] = whisperModel]
            /\ wpc' = [wpc EXCEPT ![t] = "transcribe"]
       ELSE /\ wmodel' = wmodel
            /\ wpc' = [wpc EXCEPT ![t] = "construct"]
    /\ UNCHANGED <<hasRapidfuzz, rawData, corpus, pipeVars, loadVars,
                   whisperModel, modelsBuilt, modelsUsed, wcalls>>

\* _whisper_model = WhisperModel(...) or whisper.load_model(...): a new
\* model is built and bound to the global, or the constructor raises
WhisperConstruct(t) ==
    /\ wpc[t] = "construct"
    /\ \E built \in BOOLEAN :
          IF built
          THEN /\ modelsBuilt' = modelsBuilt + 1
               /\ whisperModel' = modelsBuilt + 1
               /\ wpc' = [wpc EXCEPT ![t] = "loaded"]
          ELSE /\ wpc' = [wpc EXCEPT ![t] = "done"]
               /\ UNCHANGED <<modelsBuilt, whisperModel>>
    /\ UNCHANGED <<hasRapidfuzz, rawData, corpus, pipeVars, loadVars,
                   modelsUsed, wmodel, wcalls>>

\* the metrics are recorded, then: return _whisper_model
WhisperLoaded(t) ==
    /\ wpc[t] = "loaded"
    /\ wmodel' = [wmodel EXCEPT ![t] = whisperModel]
    /\ wpc' = [wpc EXCEPT ![t] = "transcribe"]
    /\ UNCHANGED <<hasRapidfuzz, rawData, corpus, pipeVars, loadVars,
                   whisperModel, modelsBuilt, modelsUsed, wcalls>>

\* model.transcribe(...)
WhisperTranscribe(t) ==
    /\ wpc[t] = "transcribe"
    /\ modelsUsed' = modelsUsed \cup {wmodel[t]}
    /\ wpc' = [wpc EXCEPT ![t] = "done"]
    /\ UNCHANGED <<hasRapidfuzz, rawData, corpus, pipeVars, loadVars,
                   whisperModel, modelsBuilt, wmodel, wcalls>>

\* the request is answered
WhisperDone(t) ==
    /\ wpc[t] = "done"
    /\ wpc' = [wpc EXCEPT ![t] = "idle"]
    /\ wmodel' = [wmodel EXCEPT ![t] = NoModel]
    /\ UNCHANGED <<hasRapidfuzz, rawData, corpus, pipeVars, loadVars,
                   whisperModel, modelsBuilt, modelsUsed, wcalls>>

NextWhisper ==
    \/ \E t \in Threads : WhisperRequest(t)
    \/ \E t \in Threads : WhisperCheck(t)
    \/ \E t \in Threads : WhisperConstruct(t)
    \/ \E t \in Threads : WhisperLoaded(t)
    \/ \E t \in Threads : WhisperTranscribe(t)
    \/ \E t \in Threads : WhisperDone(t)

SpecWhisper == InitWhisper /\ [][NextWhisper]_vars

-----------------------------------------------------------------------------
(* Properties of the corpus load *)

\* C1: with well-formed verse data, however the calls of load_quran_verses
\* interleave, the load body runs at most once and every call that returns
\* receives the one cached list.
C1_LoadedOnce ==
    ~DataRaises(rawData) =>
        /\ loadCount <= 1
        /\ \A t \in Threads :
              tres[t].kind = "value" => cache = Some([obj |-> tres[t].obj,
                                                      verses |-> tres[t].verses])

-----------------------------------------------------------------------------
(* Properties of align_quran *)

\* C2: when transcription yields an empty transcript, align_quran does not
\* raise and returns a neutral result: no matches, no verses, an empty
\* sequence, no global_accuracy, no errors and an empty timeline.
C2_EmptyTranscriptNeutral ==
    (op.name = "align_quran" /\ op.transcript = <<>>) =>
        /\ ~result.raised
        /\ result.value.matches = <<>>
        /\ result.value.verses = <<>>
        /\ result.value.sequence = <<>>
        /\ result.value.global_accuracy = None
        /\ result.value.errors = <<>>
        /\ result.value.timeline = <<>>

-----------------------------------------------------------------------------
(* Properties of analyze_quran_recitation_transcript *)

\* the candidates the analyser anchors on
AnchorCandidates == match_transcript_to_verses(hasRapidfuzz, corpus, op.transcript, TopKAnchor).value

AnalyzeDone == pc = "done" /\ op.name = "analyze" /\ ~corpus.raises

NoCommit(tn, matches) ==
    \/ tn = <<>>
    \/ matches = <<>>
    \/ RLt(AnchorMatch(matches).confidence, Rat(3, 10))

SpanFrom(o, anchor, tn) ==
    AnalyzeSpan(SurahVerses(corpus.verses, anchor.surah), anchor, Split(tn),
                o.max_span, o.accuracy_threshold)

EmptyOrSpan(o, r, tn, matches) ==
    /\ ~r.raised
    /\ r.value.sequence = <<>> =>
          /\ r.value.global_accuracy = None
          /\ r.value.errors = <<>>
          /\ r.value.surah = None
    /\ IF NoCommit(tn, matches)
       THEN r.value.sequence = <<>>
       ELSE r.value = SpanFrom(o, AnchorMatch(matches), tn)

\* C3: against a loaded corpus analyze never raises; it returns the empty
\* result (no sequence, no global_accuracy, no errors, no surah) when the
\* transcript is empty or normalizes to empty, when the matcher finds no
\* candidate, or when the anchor's confidence is below 0.3; an anchor of
\* confidence 0.3 or more goes on to span construction.
C3_EmptyResult ==
    AnalyzeDone => EmptyOrSpan(op, result, normalize_arabic(op.transcript), AnchorCandidates)

\* an anchor of confidence exactly 0.3 whose span was built and emitted
C3_AnchorAtThreshold ==
    /\ AnalyzeDone
    /\ result.value.sequence # <<>>
    /\ AnchorMatch(AnchorCandidates).confidence = Rat(3, 10)

\* C4: the ayah numbers of consecutive items of the sequence differ by one.
C4_Contiguous ==
    (pc = "done" /\ op.name = "analyze") =>
        \A i \in 1..(Len(result.value.sequence) - 1) :
            result.value.sequence[i + 1].ayah = result.value.sequence[i].ayah + 1

LastAyahOf(surah) ==
    SetMax({corpus.verses[i].ayah : i \in {j \in 1..Len(corpus.verses) :
                                              corpus.verses[j].surah = surah}})

WithinSpan(sequence, anchor, max_span, last_ayah) ==
    /\ \A i \in 1..Len(sequence) :
          /\ sequence[i].surah = anchor.surah
          /\ sequence[i].ayah >= anchor.ayah
          /\ sequence[i].ayah <= anchor.ayah + max_span - 1
          /\ sequence[i].ayah <= last_ayah
    /\ \A i \in 1..(Len(sequence) - 1) : sequence[i].ayah < sequence[i + 1].ayah
    /\ Len(sequence) <= max_span
    /\ Len(sequence) <= last_ayah - anchor.ayah + 1

SpanOfAnchor(sequence, anchor, max_span) ==
    WithinSpan(sequence, anchor, max_span, LastAyahOf(anchor.surah))

\* C5: every item of the sequence carries the anchor surah, the ayah numbers
\* are strictly increasing and lie between the anchor ayah and the smaller
\* of anchor ayah + max_span - 1 and the surah's last ayah, so the sequence
\* has at most min(max_span, last ayah - anchor ayah + 1) items and is empty
\* when max_span <= 0.
C5_WithinSpan ==
    AnalyzeDone =>
        /\ op.max_span <= 0 => result.value.sequence = <<>>
        /\ result.value.sequence # <<>> =>
              SpanOfAnchor(result.value.sequence, AnchorMatch(AnchorCandidates), op.max_span)

\* anchored at the second-to-last ayah of its surah with max_span = 10: the
\* sequence stops at the surah's last ayah
C5_ClampedAtSurahEnd ==
    /\ AnalyzeDone
    /\ op.max_span = 10
    /\ Len(result.value.sequence) = 2
    /\ result.value.sequence[1].ayah + 1 = LastAyahOf(result.value.sequence[1].surah)
    /\ AnchorMatch(AnchorCandidates).ayah = result.value.sequence[1].ayah

-----------------------------------------------------------------------------
(* Properties of summarize_alignment_result *)

\* the first match's confidence when it is a number, 0.0 with no matches
ReadsBestConfidence(matches, quran_confidence) ==
    /\ matches = <<>> => quran_confidence = Zero
    /\ (matches # <<>> /\ matches[1].confidence.kind = "num") =>
          quran_confidence = matches[1].confidence.val

FourConditions(input, v, at, ct) ==
    /\ input.global_accuracy.kind = "num"
    /\ RGe(input.global_accuracy.val, at)
    /\ Len(input.sequence) >= 1
    /\ RGe(v.quran_confidence, ct)

\* C6: is_quran is true exactly when global_accuracy is present, it is at
\* least accuracy_threshold, the sequence is non-empty, and quran_confidence
\* (the first match's confidence, 0.0 with no matches) is at least
\* confidence_threshold; any one of them failing makes is_quran false.
C6_IsQuranIff ==
    summary.present =>
        /\ ReadsBestConfidence(summary.input.matches, summary.value.quran_confidence)
        /\ summary.value.is_quran <=>
              FourConditions(summary.input, summary.value, summary.at, summary.ct)

\* accepted with accuracy and confidence both exactly on their thresholds
C6_AcceptedOnThresholds ==
    /\ summary.present
    /\ summary.value.is_quran
    /\ summary.input.global_accuracy = Num(summary.at)
    /\ summary.value.quran_confidence = summary.ct

LabelByRules(is_quran, accuracy, n_errors) ==
    IF ~is_quran THEN "not_quran"
    ELSE IF accuracy.some /\ RGe(accuracy.val, Rat(9, 10)) /\ n_errors = 0 THEN "quran_good"
    ELSE IF n_errors >= 1 THEN "quran_with_errors"
    ELSE "quran_uncertain"

\* C7: the label is one of not_quran, quran_good, quran_with_errors and
\* quran_uncertain, chosen by the first rule that applies; it is not_quran
\* exactly when is_quran is false, and quran_uncertain exactly when is_quran
\* holds with no errors and a global_accuracy below 0.9.
C7_LabelRules ==
    summary.present =>
        /\ summary.value.label \in {"not_quran", "quran_good", "quran_with_errors",
                                    "quran_uncertain"}
        /\ summary.value.label = LabelByRules(summary.value.is_quran,
                                              summary.value.recitation_accuracy,
                                              Len(summary.input.errors))
        /\ summary.value.label = "not_quran" <=> ~summary.value.is_quran
        /\ summary.value.label = "quran_uncertain" <=>
              /\ summary.value.is_quran
              /\ Len(summary.input.errors) = 0
              /\ RLt(summary.value.recitation_accuracy.val, Rat(9, 10))

\* accepted, free of errors, accuracy exactly 0.9: quran_good
C7_GoodAtNineTenths ==
    /\ summary.present
    /\ summary.value.is_quran
    /\ summary.value.recitation_accuracy = Some(Rat(9, 10))
    /\ summary.input.errors = <<>>
    /\ summary.value.label = "quran_good"

\* an alignment computed from a transcript and then summarised with the
\* default thresholds
RoundTrip ==
    /\ pc = "done"
    /\ op.name \in {"align_text", "align_quran"}
    /\ summary.present
    /\ summary.at = Rat(1, 2)
    /\ summary.ct = Rat(6, 10)
    /\ result.value.sequence # <<>>

CleanAndAccurate(align) ==
    /\ align.errors = <<>>
    /\ align.global_accuracy.some
    /\ RGe(align.global_accuracy.val, Rat(9, 10))

\* C8 as stated: a sequence emitted by analyze, summarised with the default
\* thresholds, with no errors and global_accuracy >= 0.9, is labelled
\* quran_good.
C8_RoundTripGood ==
    (RoundTrip /\ CleanAndAccurate(result.value)) => summary.value.label = "quran_good"

\* C8: a sequence emitted by analyze, summarised with the default thresholds
\* together with the matches of the same transcript, with no errors and
\* global_accuracy >= 0.9, is labelled quran_good provided the best match's
\* confidence is at least the confidence threshold 0.6.
C8_RoundTripGoodWhenConfident ==
    (/\ RoundTrip
     /\ CleanAndAccurate(result.value)
     /\ result.value.matches # <<>>
     /\ RGe(result.value.matches[1].confidence, Rat(6, 10)))
        => summary.value.label = "quran_good"

\* a clean, accurate sequence whose best match is confident but whose last
\* match is not
C8_GoodRoundTrip ==
    /\ RoundTrip
    /\ CleanAndAccurate(result.value)
    /\ result.value.matches # <<>>
    /\ RGe(result.value.matches[1].confidence, Rat(6, 10))
    /\ RLt(result.value.matches[Len(result.value.matches)].confidence, Rat(6, 10))
    /\ summary.value.label = "quran_good"

-----------------------------------------------------------------------------
(* Properties of match_transcript_to_verses *)

MatchDone == pc = "done" /\ op.name = "match" /\ ~result.raised

\* position of a verse in the corpus
CorpusIndex(m) ==
    SetMin({i \in 1..Len(corpus.verses) :
               corpus.verses[i].surah = m.surah /\ corpus.verses[i].ayah = m.ayah})

\* C9: the matches are sorted by confidence, descending, and matches of
\* equal confidence stand in corpus order.
C9_SortedStable ==
    MatchDone =>
        \A i \in 1..Len(result.value), j \in 1..Len(result.value) :
            i < j =>
                /\ RGe(result.value[i].confidence, result.value[j].confidence)
                /\ result.value[i].confidence = result.value[j].confidence =>
                      CorpusIndex(result.value[i]) < CorpusIndex(result.value[j])

\* a ranking with a tie and a strict step
C9_TieAndStep ==
    /\ MatchDone
    /\ Len(result.value) >= 3
    /\ \E i \in 1..(Len(result.value) - 1) :
          result.value[i].confidence = result.value[i + 1].confidence
    /\ \E i \in 1..(Len(result.value) - 1) :
          RGt(result.value[i].confidence, result.value[i + 1].confidence)

\* similarity of the normalized transcript to each verse
Similarities(tn) ==
    [i \in 1..Len(corpus.verses) |->
        _similarity(hasRapidfuzz, tn, corpus.verses[i].text_norm)]

Positive(sims) == {i \in 1..Len(sims) : RGt(sims[i], Zero)}

\* `ms` holds n of the positively scored verses, none twice, each with its
\* similarity, and no verse left out scores above one that is in
TopRanked(ms, sims, n) ==
    /\ Len(ms) = n
    /\ \A k \in 1..Len(ms) :
          /\ \E i \in Positive(sims) :
                /\ corpus.verses[i].surah = ms[k].surah
                /\ corpus.verses[i].ayah = ms[k].ayah
                /\ sims[i] = ms[k].confidence
          /\ RGt(ms[k].confidence, Zero)
          /\ RLe(ms[k].confidence, One)
    /\ \A k \in 1..Len(ms), l \in 1..Len(ms) :
          k # l => <<ms[k].surah, ms[k].ayah>> # <<ms[l].surah, ms[l].ayah>>
    /\ \A i \in Positive(sims) :
          \/ \E k \in 1..Len(ms) : CorpusIndex(ms[k]) = i
          \/ \A k \in 1..Len(ms) : RGe(ms[k].confidence, sims[i])

FirstTopK(ms, sims, top_k) ==
    TopRanked(ms, sims,
              IF top_k <= 0 \/ top_k > Cardinality(Positive(sims))
              THEN Cardinality(Positive(sims)) ELSE top_k)

\* C10: match returns the first top_k entries of the ranking of the verses
\* whose similarity to the normalized transcript is above zero, all of them
\* when top_k <= 0 or fewer exist: every confidence lies in (0, 1], no verse
\* appears twice, and the result is empty when the transcript normalizes to
\* empty or the corpus is empty.
C10_FirstTopK ==
    MatchDone =>
        IF normalize_arabic(op.transcript) = <<>> \/ corpus.verses = <<>>
        THEN result.value = <<>>
        ELSE FirstTopK(result.value, Similarities(normalize_arabic(op.transcript)), op.top_k)

\* a ranking cut to top_k, with positively scored verses left out
C10_Truncated ==
    /\ MatchDone
    /\ op.top_k >= 1
    /\ Len(result.value) = op.top_k
    /\ Cardinality(Positive(Similarities(normalize_arabic(op.transcript)))) > op.top_k

-----------------------------------------------------------------------------
(* Properties of build_ayah_timeline *)

\* a timeline was built, directly or inside align_quran, from audio of
\* positive duration
TimelineBuilt ==
    /\ pc \in {"done", "aligned"}
    /\ op.name \in {"timeline", "align_quran"}
    /\ op.audio.size > 0
    /\ op.audio.rate > 0

BuiltTimeline == IF op.name = "timeline" THEN result.value ELSE result.value.timeline
BuiltFrom == IF op.name = "timeline" THEN op.sequence ELSE result.value.sequence
BuiltMargin == IF op.name = "timeline" THEN op.margin ELSE Rat(15, 100)

WithinAudio(tl, duration, margin) ==
    /\ \A i \in 1..Len(tl) :
          /\ RLe(Zero, tl[i].start)
          /\ RLe(tl[i].start, tl[i].end)
          /\ RLe(tl[i].end, duration)
    /\ \A i \in 1..(Len(tl) - 1) : RLe(tl[i].end, RAdd(tl[i + 1].start, margin))

\* C11: for a non-empty sequence and audio of positive duration, every
\* timeline item has 0 <= start <= end <= audio duration, and each item ends
\* no later than the next one starts plus the margin.
C11_WithinAudio ==
    TimelineBuilt =>
        WithinAudio(BuiltTimeline, Rat(op.audio.size, op.audio.rate), BuiltMargin)

\* several windows under a positive margin, the last one cut at the end of
\* the audio
C11_ClampedAtAudioEnd ==
    /\ TimelineBuilt
    /\ op.name = "timeline"
    /\ RGt(op.margin, Zero)
    /\ Len(result.value) >= 2
    /\ result.value[Len(result.value)].end = Rat(op.audio.size, op.audio.rate)
    /\ op.audio.intervals # <<>>

NonOverlapping(tl) ==
    \A i \in 1..(Len(tl) - 1) :
        /\ RLe(tl[i].start, tl[i + 1].start)
        /\ RLe(tl[i].end, tl[i + 1].end)
        /\ RLe(tl[i].end, tl[i + 1].start)

\* C12 as stated: consecutive timeline items have start[i] <= start[i+1],
\* end[i] <= end[i+1] and end[i] <= start[i+1].
C12_NonOverlapping ==
    TimelineBuilt => NonOverlapping(BuiltTimeline)

NonDecreasing(tl, margin) ==
    \A i \in 1..(Len(tl) - 1) :
        /\ RLe(tl[i].start, tl[i + 1].start)
        /\ RLe(tl[i].end, tl[i + 1].end)
        /\ margin = Zero => RLe(tl[i].end, tl[i + 1].start)

\* C12: consecutive timeline items have start[i] <= start[i+1] and
\* end[i] <= end[i+1]; with a margin of zero they also have
\* end[i] <= start[i+1], while a positive margin lets a window reach back
\* into the one before it.
C12_NonDecreasing ==
    TimelineBuilt => NonDecreasing(BuiltTimeline, BuiltMargin)

\* a margin of zero and windows of positive length that touch end to start
C12_TouchingWindows ==
    /\ TimelineBuilt
    /\ op.name = "timeline"
    /\ op.margin = Zero
    /\ Len(result.value) >= 3
    /\ \A i \in 1..Len(result.value) : RLt(result.value[i].start, result.value[i].end)
    /\ result.value[1].end = result.value[2].start

OnePerAyah(tl, sequence) ==
    /\ Len(tl) = Len(sequence)
    /\ \A i \in 1..Len(tl) :
          tl[i].surah = sequence[i].surah /\ tl[i].ayah = sequence[i].ayah

\* C13: with audio of positive duration the timeline has one item per item
\* of the sequence, in order and with the same surah and ayah; the timeline
\* is empty only when the sequence is empty or the audio has no duration.
C13_OnePerAyah ==
    /\ TimelineBuilt => OnePerAyah(BuiltTimeline, BuiltFrom)
    /\ (pc = "done" /\ op.name = "timeline" /\ result.value = <<>>) =>
          (op.sequence = <<>> \/ op.audio.size = 0 \/ op.audio.rate <= 0)

-----------------------------------------------------------------------------
(* Properties of normalize_arabic *)

NormalizeDone == pc = "done" /\ op.name = "normalize"

InsertAt(s, i, c) == SubSeq(s, 1, i) \o <<c>> \o SubSeq(s, i + 1, Len(s))
RemoveAt(s, i) == SubSeq(s, 1, i - 1) \o SubSeq(s, i + 1, Len(s))

DiacriticInsensitive(text, out) ==
    /\ \A i \in 0..Len(text), d \in {"fatha", "sukun"} :
          normalize_arabic(InsertAt(text, i, d)) = out
    /\ \A i \in 1..Len(text) :
          text[i] \in {"fatha", "sukun"} => normalize_arabic(RemoveAt(text, i)) = out

\* C14: normalize_arabic is idempotent, and adding or removing a diacritic
\* anywhere in its input does not change its output.
C14_Idempotent ==
    NormalizeDone =>
        /\ normalize_arabic(result.value) = result.value
        /\ DiacriticInsensitive(op.text, result.value)

\* a text with a diacritic and a character from outside the Arabic block
\* that normalizes to something other than itself
C14_MixedText ==
    /\ NormalizeDone
    /\ \E i \in 1..Len(op.text) : op.text[i] \in {"fatha", "sukun"}
    /\ \E i \in 1..Len(op.text) : op.text[i] = "latin"
    /\ result.value # <<>>
    /\ result.value # op.text

LettersAndSingleSpaces(out) ==
    /\ \A i \in 1..Len(out) :
          out[i] \in {"alif", "yaa", "ba", "lam", "mim", "ha", "dal", "ra", "ain", "nun",
                      "space"}
    /\ out # <<>> => (out[1] # "space" /\ out[Len(out)] # "space")
    /\ \A i \in 1..(Len(out) - 1) : ~(out[i] = "space" /\ out[i + 1] = "space")

\* C15: the output of normalize_arabic holds Arabic letters and single
\* spaces only, with no space at either end; empty input gives empty output.
C15_LettersAndSpaces ==
    NormalizeDone =>
        /\ LettersAndSingleSpaces(result.value)
        /\ op.text = <<>> => result.value = <<>>

-----------------------------------------------------------------------------
(* Properties of a failed corpus load *)

\* C16: when load_quran_verses raises, match, analyze and align_quran_text,
\* called with a transcript that makes them read the corpus, raise too.
C16_LoadFailurePropagates ==
    (/\ pc \in {"done", "aligned"}
     /\ corpus.raises
     /\ op.name \in {"match", "analyze", "align_text"}
     /\ normalize_arabic(op.transcript) # <<>>)
        => result.raised

Malformed(item) ==
    \/ item.surah.kind # "int"
    \/ item.ayah.kind # "int"
    \/ item.text.kind # "str"

\* C17: when a source record lacks surah, ayah or text, or has a surah or
\* ayah that is not an integer, load_quran_verses returns no corpus and
\* caches none.
C17_MalformedNeverServed ==
    (rawData.exists /\ \E i \in 1..Len(rawData.items) : Malformed(rawData.items[i])) =>
        /\ cache = None
        /\ \A t \in Threads : tres[t].kind # "value"

-----------------------------------------------------------------------------
(* Properties of the cached corpus *)

\* C18: whatever calls of match, analyze, align_quran_text, align_quran,
\* summarize and the timeline builder have been served, the cached corpus
\* holds the verses it was loaded with, in the same order and with the same
\* field values.
C18_CorpusReadOnly ==
    corpus = Loaded(rawData)

\* analyze has filtered and sorted a surah of several ayahs and walked it
C18_AfterSortedSpan ==
    /\ pc = "done"
    /\ op.name = "analyze"
    /\ ~corpus.raises
    /\ Len(result.value.sequence) >= 2
    /\ Len(corpus.verses) >= 3

-----------------------------------------------------------------------------
(* Properties of the classifier on malformed alignments *)

SummarizedAny == pc = "done" /\ op.name = "summarize" /\ summary.present

DefaultThresholds ==
    summary.at = DefaultSummaryAccuracy /\ summary.ct = DefaultSummaryConfidence

\* the surah and ayah values the span is read from
SpanFields(al) ==
    IF al.sequence # <<>>
    THEN {al.sequence[1].surah} \cup {al.sequence[i].ayah : i \in 1..Len(al.sequence)}
    ELSE IF al.matches # <<>> THEN {al.matches[1].surah, al.matches[1].ayah}
    ELSE {}

Rejected(x) == x.kind # "num"
NonInteger(x) == x.kind # "num" \/ x.val[2] # 1

BadConfidence(al) == al.matches # <<>> /\ Rejected(al.matches[1].confidence)
BadAccuracy(al) == al.global_accuracy.kind = "bad"

\* what a malformed confidence or accuracy comes to
MalformedNumbersNeutral(al, out, defaults) ==
    /\ out.label \in {"not_quran", "quran_good", "quran_with_errors", "quran_uncertain"}
    /\ BadConfidence(al) => out.quran_confidence = Zero
    /\ BadAccuracy(al) => out.recitation_accuracy = None
    /\ (defaults /\ (BadConfidence(al) \/ BadAccuracy(al))) =>
           (~out.is_quran /\ out.label = "not_quran")

NullSpan(out) ==
    out.main_surah = None /\ out.ayah_start = None /\ out.ayah_end = None

\* C19 as stated: a summary is produced for every alignment; a malformed
\* confidence gives quran_confidence 0, a malformed accuracy gives a null
\* recitation_accuracy, a surah or ayah that is not an integer gives a null
\* span, and under the default thresholds a malformed confidence or accuracy
\* gives is_quran false and the label not_quran.
C19_MalformedYieldsNull ==
    SummarizedAny =>
        /\ MalformedNumbersNeutral(summary.input, summary.value, DefaultThresholds)
        /\ (\E x \in SpanFields(summary.input) : NonInteger(x)) => NullSpan(summary.value)

\* C19 amended: the same, where the span is null when int() rejects a surah
\* or ayah it reads; a fractional number is accepted and truncated toward
\* zero.
C19_RejectedYieldsNull ==
    SummarizedAny =>
        /\ MalformedNumbersNeutral(summary.input, summary.value, DefaultThresholds)
        /\ (\E x \in SpanFields(summary.input) : Rejected(x)) => NullSpan(summary.value)
        /\ (SpanFields(summary.input) # {}
            /\ \A x \in SpanFields(summary.input) : ~Rejected(x)) =>
               /\ summary.value.ayah_start.some
               /\ \E x \in SpanFields(summary.input) :
                     summary.value.ayah_start.val = Trunc(x.val)

\* an alignment whose confidence, accuracy and surah are all malformed,
\* summarized under the default thresholds
C19_AllMalformed ==
    /\ SummarizedAny
    /\ DefaultThresholds
    /\ BadAccuracy(summary.input)
    /\ summary.input.sequence # <<>>
    /\ Rejected(summary.input.sequence[1].surah)
    /\ BadConfidence(summary.input)

-----------------------------------------------------------------------------
(* Properties of is_quran_like *)

\* the three conditions: a best match, its confidence at least 0.7, an
\* accuracy that is present and at least 0.5
LikeConditions(matches, global_accuracy) ==
    /\ matches # <<>>
    /\ matches[1].confidence.kind = "num"
    /\ RGe(matches[1].confidence.val, Rat(7, 10))
    /\ global_accuracy.kind = "num"
    /\ RGe(global_accuracy.val, Rat(1, 2))

\* C20: is_quran_like is true exactly when matches is non-empty, the best
\* match's confidence is at least 0.7 and global_accuracy is present and at
\* least 0.5, both when the heuristic is called on its own and when
\* align_quran_text and align_quran report it.
C20_LikeIff ==
    /\ (pc = "done" /\ op.name = "is_quran_like") =>
           (result.value <=> LikeConditions(op.matches, op.global_accuracy))
    /\ (pc = "aligned" /\ result.value.is_quran_like.some) =>
           (result.value.is_quran_like.val <=>
                LikeConditions(DynMatches(result.value.matches),
                               DynOpt(result.value.global_accuracy)))
    /\ (pc = "aligned" /\ ~result.value.is_quran_like.some) =>
           ~LikeConditions(DynMatches(result.value.matches),
                           DynOpt(result.value.global_accuracy))

\* the heuristic accepts a best confidence of exactly 0.7 with an accuracy
\* of exactly 0.5
C20_AcceptedAtThresholds ==
    /\ pc = "done"
    /\ op.name = "is_quran_like"
    /\ op.matches # <<>>
    /\ op.matches[1].confidence = Num(Rat(7, 10))
    /\ op.global_accuracy = Num(Rat(1, 2))
    /\ result.value

\* a best confidence the classifier accepts and the heuristic refuses
C20_BetweenThresholds ==
    /\ pc = "done"
    /\ op.name = "is_quran_like"
    /\ op.matches # <<>>
    /\ op.matches[1].confidence = Num(Rat(6, 10))
    /\ op.global_accuracy = Num(One)
    /\ ~result.value

-----------------------------------------------------------------------------
(* Properties relating the two similarity backends *)

\* similarity of the normalized transcript to each verse under one backend
SimilaritiesWith(rapid, tn) ==
    [i \in 1..Len(corpus.verses) |-> _similarity(rapid, tn, corpus.verses[i].text_norm)]

\* no two verses that both backends rank are ordered one way by the
\* partial ratio and the other way by the fallback ratio
OrderCompatible(partial, fallback) ==
    \A i \in Positive(partial) \cap Positive(fallback),
       j \in Positive(partial) \cap Positive(fallback) :
        ~(RGt(partial[i], partial[j]) /\ RLt(fallback[i], fallback[j]))

\* C21: for the corpus and the transcript of a match call, the ranking by
\* the fallback similarity and the ranking by the partial ratio never order
\* a pair of verses in opposite ways.
C21_OrderCompatible ==
    MatchDone =>
        OrderCompatible(SimilaritiesWith(TRUE, normalize_arabic(op.transcript)),
                        SimilaritiesWith(FALSE, normalize_arabic(op.transcript)))

-----------------------------------------------------------------------------
(* Properties of the anchor *)

\* confidence of the candidates of surah s, summed
RECURSIVE SummedConfidence(_, _, _)
SummedConfidence(ms, s, k) ==
    IF k = 0 THEN Zero
    ELSE IF ms[k].surah = s THEN RAdd(SummedConfidence(ms, s, k - 1), ms[k].confidence)
    ELSE SummedConfidence(ms, s, k - 1)

\* ms[k] belongs to a surah of greatest summed confidence and is the
\* earliest-ranked candidate of greatest confidence within that surah
IsAnchorAt(ms, k) ==
    /\ \A j \in 1..Len(ms) :
          RLe(SummedConfidence(ms, ms[j].surah, Len(ms)),
              SummedConfidence(ms, ms[k].surah, Len(ms)))
    /\ \A j \in 1..Len(ms) :
          ms[j].surah = ms[k].surah =>
              /\ RLe(ms[j].confidence, ms[k].confidence)
              /\ j < k => RLt(ms[j].confidence, ms[k].confidence)

WalkedFromAnchor(o, r, ms, tn) ==
    \E k \in 1..Len(ms) :
        /\ IsAnchorAt(ms, k)
        /\ r.value.surah = Some(ms[k].surah)
        /\ \A i \in 1..Len(r.value.sequence) : r.value.sequence[i].ayah >= ms[k].ayah
        /\ r.value = SpanFrom(o, ms[k], tn)

TopSurahs(ms) ==
    {ms[k].surah : k \in {i \in 1..Len(ms) :
        \A j \in 1..Len(ms) :
            RLe(SummedConfidence(ms, ms[j].surah, Len(ms)),
                SummedConfidence(ms, ms[i].surah, Len(ms)))}}

AnchoredOnLowest(r, ms) ==
    Cardinality(TopSurahs(ms)) >= 2 => r.value.surah = Some(SetMin(TopSurahs(ms)))

\* C23: when several surahs tie for the greatest summed confidence, the
\* sequence is walked in the tied surah of lowest number.
C23_TieToLowestSurah ==
    (AnalyzeDone /\ result.value.sequence # <<>>) => AnchoredOnLowest(result, AnchorCandidates)

-----------------------------------------------------------------------------
(* Properties of the items of the sequence *)

\* the words of a verse of the corpus
VerseTokens(item) == Split(corpus.verses[CorpusIndex(item)].text_norm)

\* the words of the transcript, without order or multiplicity
TranscriptWords == {Split(normalize_arabic(op.transcript))[i] :
                       i \in 1..Len(Split(normalize_arabic(op.transcript)))}

\* accuracy and missing_words of an item against the verse's tokens and the
\* set of transcript words
BooleanCoverage(item, vt, words) ==
    /\ item.accuracy = Rat(Cardinality({i \in 1..Len(vt) : vt[i] \in words}), Len(vt))
    /\ RGe(item.accuracy, Zero)
    /\ RLe(item.accuracy, One)
    /\ item.missing_words = SelectSeq(vt, LAMBDA w : w \notin words)
    /\ item.accuracy = One <=> item.missing_words = <<>>

\* C24: the accuracy of every item is the number of token occurrences of
\* its verse whose word is among the transcript's words, over the number of
\* token occurrences of the verse; it depends on the set of transcript words
\* only, lies in [0, 1], is 1 exactly when missing_words is empty, and
\* missing_words lists the uncovered verse tokens in verse order.
C24_BooleanCoverage ==
    AnalyzeDone =>
        \A i \in 1..Len(result.value.sequence) :
            BooleanCoverage(result.value.sequence[i],
                            VerseTokens(result.value.sequence[i]), TranscriptWords)

\* a verse that repeats a word is fully covered by a transcript holding the
\* word once
C24_RepeatedWordCovered ==
    /\ AnalyzeDone
    /\ Len(Split(normalize_arabic(op.transcript))) = 1
    /\ \E i \in 1..Len(result.value.sequence) :
          /\ Len(VerseTokens(result.value.sequence[i])) = 2
          /\ VerseTokens(result.value.sequence[i])[1] = VerseTokens(result.value.sequence[i])[2]
          /\ result.value.sequence[i].accuracy = One

\* the ayah numbers the walk visits from an anchor
SpanAyahs(anchor, max_span) ==
    {n \in anchor.ayah..(anchor.ayah + max_span - 1) : n <= LastAyahOf(anchor.surah)}

HasVerse(surah, n) ==
    \E i \in 1..Len(corpus.verses) :
        corpus.verses[i].surah = surah /\ corpus.verses[i].ayah = n

\* a verse with tokens of which at least a fifth are among the words
Emittable(vt, words) ==
    /\ vt # <<>>
    /\ 5 * Cardinality({i \in 1..Len(vt) : vt[i] \in words}) >= Len(vt)

EmittedAt(sequence, surah, n) ==
    \E i \in 1..Len(sequence) : sequence[i].surah = surah /\ sequence[i].ayah = n

EmittedOnOwnAccuracy(o, sequence, anchor, words) ==
    /\ \A n \in SpanAyahs(anchor, o.max_span) :
          EmittedAt(sequence, anchor.surah, n) <=>
              /\ HasVerse(anchor.surah, n)
              /\ Emittable(VerseTokens([surah |-> anchor.surah, ayah |-> n]), words)
    /\ \A i \in 1..Len(sequence) :
          /\ sequence[i].confidence = sequence[i].accuracy
          /\ sequence[i].error_flag <=> RLt(sequence[i].accuracy, o.accuracy_threshold)

\* C25: once an anchor is committed, an ayah of the span is in the sequence
\* exactly when its verse has tokens and its accuracy is at least 0.2,
\* whatever happened to the ayahs before it; every item has confidence equal
\* to its accuracy and is flagged exactly when its accuracy is below the
\* accuracy threshold.
C25_EmittedOnOwnAccuracy ==
    (AnalyzeDone /\ ~NoCommit(normalize_arabic(op.transcript), AnchorCandidates)) =>
        EmittedOnOwnAccuracy(op, result.value.sequence, AnchorMatch(AnchorCandidates),
                             TranscriptWords)

\* an ayah emitted after a skipped one
C25_EmittedAfterSkipped ==
    /\ AnalyzeDone
    /\ Len(result.value.sequence) >= 2
    /\ \E i \in 1..(Len(result.value.sequence) - 1) :
          result.value.sequence[i + 1].ayah > result.value.sequence[i].ayah + 1

\* an ayah emitted, and flagged, with an accuracy of exactly 0.2
C25_EmittedAtOneFifth ==
    /\ AnalyzeDone
    /\ \E i \in 1..Len(result.value.sequence) :
          /\ result.value.sequence[i].accuracy = Rat(1, 5)
          /\ result.value.sequence[i].error_flag

-----------------------------------------------------------------------------
(* Properties of the errors *)

ErrorKey(surah, n, type) == [surah |-> surah, ayah |-> n, type |-> type]

ErrorKeys(errors) ==
    [i \in 1..Len(errors) |-> ErrorKey(errors[i].surah, errors[i].ayah, errors[i].type)]

\* what one item contributes to the errors
ItemErrors(item) ==
    IF ~item.error_flag THEN <<>>
    ELSE (IF item.missing_words # <<>>
          THEN <<ErrorKey(item.surah, item.ayah, "missing_words")>>
          ELSE <<>>)
         \o <<ErrorKey(item.surah, item.ayah, "low_accuracy")>>

RECURSIVE SequenceErrors(_, _)
SequenceErrors(sequence, k) ==
    IF k = 0 THEN <<>>
    ELSE SequenceErrors(sequence, k - 1) \o ItemErrors(sequence[k])

Flagged(sequence) == {i \in 1..Len(sequence) : sequence[i].error_flag}

ErrorsOfFlagged(sequence, errors) ==
    /\ ErrorKeys(errors) = SequenceErrors(sequence, Len(sequence))
    /\ errors = <<>> <=> Flagged(sequence) = {}
    /\ Cardinality({i \in 1..Len(errors) : errors[i].type = "low_accuracy"})
          = Cardinality(Flagged(sequence))
    /\ \A i \in 1..Len(errors) : EmittedAt(sequence, errors[i].surah, errors[i].ayah)

\* C26: the errors are, in sequence order, those of the flagged items: a
\* missing_words error exactly when the item misses a word, then one
\* low_accuracy error; unflagged items and skipped ayahs add nothing, so
\* errors is empty exactly when no item is flagged, there are as many
\* low_accuracy errors as flagged items, and every error carries the surah
\* and ayah of an item of the sequence.
C26_ErrorsOfFlagged ==
    AnalyzeDone => ErrorsOfFlagged(result.value.sequence, result.value.errors)

\* a flagged item that misses no word next to the errors of one that does
C26_FlaggedWithoutMissing ==
    /\ AnalyzeDone
    /\ \E i \in Flagged(result.value.sequence) :
          result.value.sequence[i].missing_words = <<>>
    /\ \E i \in Flagged(result.value.sequence) :
          result.value.sequence[i].missing_words # <<>>

-----------------------------------------------------------------------------
(* Properties of global_accuracy *)

\* the accuracies of the items, summed
RECURSIVE SummedAccuracy(_, _)
SummedAccuracy(sequence, k) ==
    IF k = 0 THEN Zero ELSE RAdd(SummedAccuracy(sequence, k - 1), sequence[k].accuracy)

PresentWithSequence(v) ==
    /\ v.global_accuracy = None <=> v.sequence = <<>>
    /\ v.sequence = <<>> => v.errors = <<>>

\* x is the double nearest to the exact value or one displaced from it
NearestOrNext(x, exact) ==
    /\ RLe(RSub(exact, RoundingStep), x)
    /\ RLe(x, RAdd(exact, RoundingStep))

\* the mean of the accuracies of the items, as doubles give it
MeanOfItems(v) ==
    NearestOrNext(v.global_accuracy.val,
                  RDivInt(SummedAccuracy(v.sequence, Len(v.sequence)), Len(v.sequence)))

-----------------------------------------------------------------------------
(* Properties of the list a caller of load_quran_verses receives *)

\* one entry per record of the file, in file order, normalized
CompleteCorpus(verses) ==
    /\ Len(verses) = Len(rawData.items)
    /\ \A i \in 1..Len(verses) :
          /\ verses[i].surah = rawData.items[i].surah.val
          /\ verses[i].ayah = rawData.items[i].ayah.val
          /\ verses[i].text_raw =
                (IF rawData.items[i].text.kind = "str" THEN rawData.items[i].text.val
                 ELSE <<>>)
          /\ verses[i].text_norm = normalize_arabic(verses[i].text_raw)

\* C28: in every interleaving of concurrent calls, a caller that obtains a
\* corpus obtains the complete list, one entry per record in file order
\* with text_norm already the normalization of text_raw, and so is whatever
\* is cached; a load that fails hands over no list and leaves nothing
\* cached, so that the next call misses the cache and loads again.
C28_NeverPartial ==
    /\ \A t \in Threads :
          /\ tres[t].kind = "value" => CompleteCorpus(tres[t].verses)
          /\ tres[t].kind = "raised" => (tres[t].verses = <<>> /\ cache = None)
    /\ cache.some => CompleteCorpus(cache.val.verses)
    /\ DataRaises(rawData) => cache = None

\* a caller holds the complete list while another thread's list is half built
C28_ServedWhileParsing ==
    \E t \in Threads, u \in Threads :
        /\ tres[t].kind = "value"
        /\ Len(tres[t].verses) >= 2
        /\ tpc[u] = "parse"
        /\ Len(tlocal[u].verses) >= 1
        /\ Len(tlocal[u].verses) < Len(rawData.items)

\* a failed load followed by a second attempt
C28_LoadedAgainAfterFailure ==
    /\ DataRaises(rawData)
    /\ loadCount >= 2
    /\ \E t \in Threads : tres[t].kind = "raised" /\ tcalls[t] >= 2

-----------------------------------------------------------------------------
(* Properties relating is_quran_like to the classifier *)

TextAligned == op.name = "align_text" /\ pc \in {"aligned", "done"}

\* C29: a result of align_quran_text never has a global_accuracy without a
\* sequence, and when its is_quran_like is true the classifier, under its
\* default thresholds, returns is_quran true for it.
C29_LikeImpliesIsQuran ==
    TextAligned =>
        /\ result.value.global_accuracy.some => result.value.sequence # <<>>
        /\ (summary.present /\ DefaultThresholds
            /\ result.value.is_quran_like = Some(TRUE)) => summary.value.is_quran

\* a result with is_quran_like true, classified under the default thresholds
C29_LikeAndClassified ==
    /\ TextAligned
    /\ summary.present
    /\ DefaultThresholds
    /\ result.value.is_quran_like = Some(TRUE)
    /\ summary.value.is_quran

-----------------------------------------------------------------------------
(* The Whisper model under concurrent /quran/align requests               *)

\* C30: across any interleaving of concurrent align_quran requests the
\* Whisper model is constructed at most once per process and every request
\* transcribes with that same instance
C30_SingleModel ==
    /\ modelsBuilt <= 1
    /\ Cardinality(modelsUsed) <= 1

====
